---- MODULE Spec2Model ----
(***************************************************************************)
(* pi-interactive-shell: the hands-free / interactive overlay controller   *)
(* (InteractiveShellOverlay), the session registry (ShellSessionManager    *)
(* with the session-id pool), the reattach overlay and the tool / command  *)
(* entry points of the extension, as one state machine.                    *)
(*                                                                         *)
(* Time is abstracted: a pending timer is a flag (or a live handle) and    *)
(* its callback is an action that may run whenever the timer is pending.   *)
(* The PTY session class (pty-session.ts) is not part of the sources; the  *)
(* few things the controller uses of it are modelled from the             *)
(* specification and marked so in the model map.                           *)
(***************************************************************************)
EXTENDS Integers, Sequences, FiniteSets, TLC

\* ------------------------------------------------------------------ bounds
MaxRaw == 2        \* longest raw output log of a session (characters)
MaxUpdates == 2    \* periodic hands-free emissions are cut off after this many
MaxWrites == 1     \* writes to the child that are recorded
MaxStarts == 2     \* sessions started in one behaviour of SpecReg
MaxCountdown == 1  \* largest configured exitAutoCloseDelay explored
MaxBudget == 1     \* largest maxTotalChars / updateMaxChars explored

\* ------------------------------------------------------- constants of code
SUFFIX_MAX == 9    \* generateSessionId tries base-2 .. base-9
MIN_INTERVAL == 5000
MAX_INTERVAL == 300000

None == <<>>
NoName == ""   \* an absent (or empty, hence falsy) name

\* Characters of the raw log: "x" a printable character, "n" a newline,
\* "e" one ANSI control sequence (removed by stripAnsi).
Chars == {"x", "n", "e"}
\* the exit status line the session appends to the raw log, as one character
StatusLine == "s"

Names == {"a"}
Slugs == {"s"}
Fallbacks == {<<"shell", 1>>, <<"shell", 2>>}

\* ----------------------------------------------------------- pure helpers
Min(a, b) == IF a < b THEN a ELSE b
Max(a, b) == IF a > b THEN a ELSE b

\* String.prototype.slice(-k): the last k characters; slice(-0) is slice(0),
\* the whole string.
SliceLast(s, k) ==
  IF k = 0 \/ Len(s) <= k THEN s ELSE SubSeq(s, Len(s) - k + 1, Len(s))

\* stripVTControlCharacters on the abstract alphabet.
StripAnsi(s) == SelectSeq(s, LAMBDA c : c # "e")

\* String.prototype.split("\n"): always at least one (possibly empty) line.
RECURSIVE Split(_)
Split(s) ==
  IF \A i \in 1..Len(s) : s[i] # "n" THEN <<s>>
  ELSE LET i == CHOOSE j \in 1..Len(s) : s[j] = "n" /\ \A k \in 1..(j-1) : s[k] # "n"
       IN <<SubSeq(s, 1, i - 1)>> \o Split(SubSeq(s, i + 1, Len(s)))

\* Array.prototype.join("\n").length, as index.ts computes newChars.
RECURSIVE JoinLen(_)
JoinLen(lines) ==
  IF Len(lines) = 0 THEN 0
  ELSE IF Len(lines) = 1 THEN Len(lines[1])
  ELSE Len(lines[1]) + 1 + JoinLen(Tail(lines))

\* ------------------------------------------------------------------ state
VARIABLES
  overlayOpen,            \* index.ts: let overlayOpen
  attach,                 \* the /attach handler: where it is suspended
  usedIds,                \* session-manager.ts: usedIds
  activeSessions,         \* ShellSessionManager.activeSessions (id -> controller instance)
  sessions,               \* ShellSessionManager.sessions (id -> pty)
  exitWatchers,           \* id -> timer handle
  cleanupTimers,          \* id -> timer handle
  minimizedSessions,      \* id -> pty
  minimizedExitWatchers,  \* id -> timer handle
  minimizedCleanupTimers, \* id -> timer handle
  timers,                 \* the registry's timer handles that are armed
  ptys,                   \* the PtyTerminalSession objects created so far
  overlay,                \* the InteractiveShellOverlay instance
  reattach,               \* the ReattachOverlay instance
  updates,                \* what onHandsFreeUpdate has been called with, in order
  doneCalls,              \* what done() of the shell overlay has been called with
  starts,                 \* sessions started so far
  lastCall,               \* the last driver request answered, with its result
  query,                  \* the status query suspended in its rate-limit wait
  translated              \* the last input given to translateInput, with its result

vars == <<overlayOpen, attach, usedIds, activeSessions, sessions, exitWatchers,
          cleanupTimers, minimizedSessions, minimizedExitWatchers,
          minimizedCleanupTimers, timers, ptys, overlay, reattach, updates,
          doneCalls, starts, lastCall, query, translated>>

\* The state as one record, so that a handler is the composition of the
\* methods it calls, in the order of the source.
World ==
  [overlayOpen |-> overlayOpen, attach |-> attach, usedIds |-> usedIds,
   activeSessions |-> activeSessions, sessions |-> sessions,
   exitWatchers |-> exitWatchers, cleanupTimers |-> cleanupTimers,
   minimizedSessions |-> minimizedSessions,
   minimizedExitWatchers |-> minimizedExitWatchers,
   minimizedCleanupTimers |-> minimizedCleanupTimers, timers |-> timers,
   ptys |-> ptys, overlay |-> overlay, reattach |-> reattach,
   updates |-> updates, doneCalls |-> doneCalls, starts |-> starts,
   lastCall |-> lastCall, query |-> query, translated |-> translated]

\* Map.set / Map.delete on a function used as a Map.
MapSet(m, k, v) == [x \in (DOMAIN m) \cup {k} |-> IF x = k THEN v ELSE m[x]]
MapDelete(m, k) == [x \in (DOMAIN m) \ {k} |-> m[x]]
EmptyMap == [x \in {} |-> None]

\* ------------------------------------------- tool calls and their results
\* The parameters of a call of the tool that the model tells apart; an absent
\* settings.updateInterval is NoSetting, an absent input is NoInput.
NoSetting == 0 - 1
NoInput == "(undefined)"
NoParams ==
  [command |-> FALSE, sessionId |-> None, kill |-> FALSE,
   settings |-> NoSetting, input |-> NoInput]

\* What a call returns: isError and, of its details, error, status, the
\* completion result (a sequence of at most one) and the actions taken.
NoDetails ==
  [isError |-> FALSE, error |-> "none", status |-> "none", result |-> <<>>,
   actions |-> {}]

\* resumed: "completion" or "timer" when the call was answered after a wait
NoCall == [answered |-> FALSE, resumed |-> "no", params |-> NoParams, details |-> NoDetails]
NoQuery == [pc |-> "idle", params |-> NoParams]

\* execute returns details to a call with params.
Answer(w, params, details) ==
  [w EXCEPT !.lastCall = [answered |-> TRUE, resumed |-> "no",
                          params |-> params, details |-> details]]

\* ------------------------------------------------------------- PtySession
NewPty ==
  [exited |-> FALSE, exitCode |-> "null", disposed |-> FALSE, killed |-> FALSE,
   handlers |-> "shell",
   rawOutput |-> <<>>, lastStreamPosition |-> 0, written |-> <<>>]

\* getRawStream({ sinceLast: true, stripAnsi: true }): what was appended after
\* the cursor, stripped; the cursor moves to the end of the log.
RawSinceLast(pty) ==
  StripAnsi(SubSeq(pty.rawOutput, pty.lastStreamPosition + 1, Len(pty.rawOutput)))

\* a sinceLast read that leaves the cursor where it was
LeaveCursor(pty) == pty

AdvanceCursor(pty) == [pty EXCEPT !.lastStreamPosition = Len(pty.rawOutput)]

PtyWrite(w, p, data) == [w EXCEPT !.ptys[p].written = Append(@, data)]
PtyKill(w, p) == [w EXCEPT !.ptys[p].killed = TRUE]
PtyDispose(w, p) == [w EXCEPT !.ptys[p].disposed = TRUE]
SetEventHandlers(w, p, h) == [w EXCEPT !.ptys[p].handlers = h]

\* ------------------------------------------------------------ the id pool
\* generateSessionId(name) with a name: name, name-2, name-3, ...
NamedId(name, used) ==
  LET k == CHOOSE i \in 1..(Cardinality(used) + 1) :
             /\ <<name, i>> \notin used
             /\ \A j \in 1..(i - 1) : <<name, j>> \in used
  IN <<name, k>>

\* One attempt of the slug loop on base b: the base, else base-2 .. base-9.
SlugCandidates(b, used) == {k \in 1..SUFFIX_MAX : <<b, k>> \notin used}
SlugId(b, used) ==
  <<b, CHOOSE k \in SlugCandidates(b, used) : \A j \in SlugCandidates(b, used) : k <= j>>

\* Every id generateSessionId(name) can return with `used` taken: randomChoice
\* is a free choice of the base; the timestamp fallback is reached when twenty
\* attempts in a row land on bases that are used up, and is not checked
\* against usedIds.
generateSessionId(name, used) ==
  IF name # NoName THEN {NamedId(name, used)}
  ELSE {SlugId(b, used) : b \in {c \in Slugs : SlugCandidates(c, used) # {}}}
       \cup (IF \E c \in Slugs : SlugCandidates(c, used) = {} THEN Fallbacks ELSE {})

releaseSessionId(w, id) == [w EXCEPT !.usedIds = @ \ {id}]

\* ------------------------------------------------- ShellSessionManager (1)
registerActive(w, id, inst) == [w EXCEPT !.activeSessions = MapSet(@, id, inst)]

unregisterActive(w, id, releaseId) ==
  LET w1 == [w EXCEPT !.activeSessions = MapDelete(@, id)]
  IN IF releaseId THEN releaseSessionId(w1, id) ELSE w1

WatchHandle(kind, id, p) == [kind |-> kind, id |-> id, session |-> p]

\* addWithId: the entry, no handlers on the session, a new exit watcher.
addWithId(w, id, p) ==
  LET h == WatchHandle("exitWatcher", id, p)
      w1 == [w EXCEPT !.sessions = MapSet(@, id, p)]
      w2 == SetEventHandlers(w1, p, "none")
  IN [w2 EXCEPT !.timers = @ \cup {h}, !.exitWatchers = MapSet(@, id, h)]

\* add: generateSessionId(name) has returned id.
add(w, id, p) == addWithId([w EXCEPT !.usedIds = @ \cup {id}], id, p)

\* ------------------------------------------- InteractiveShellOverlay: timers
\* overlay.pending[kind]: how many timers of the kind the runtime holds for
\* the controller.  setTimeout and setInterval add one; clearTimeout and
\* clearInterval take one away (cancelling a timer that has fired already
\* does nothing); a timeout is spent when its callback runs.
TimerKinds == {"countdown", "quiet", "initial", "interval", "timeout"}
setTimer(w, kind) == [w EXCEPT !.overlay.pending[kind] = @ + 1]
clearTimer(w, kind) == [w EXCEPT !.overlay.pending[kind] = Max(0, @ - 1)]
timerFired(w, kind) == clearTimer(w, kind)

stopCountdown(w) ==
  IF w.overlay.countdownInterval
  THEN [clearTimer(w, "countdown") EXCEPT !.overlay.countdownInterval = FALSE]
  ELSE w
startExitCountdown(w) ==
  [setTimer(stopCountdown(w), "countdown") EXCEPT !.overlay.countdownInterval = TRUE]

stopQuietTimer(w) ==
  IF w.overlay.quietTimer
  THEN [clearTimer(w, "quiet") EXCEPT !.overlay.quietTimer = FALSE]
  ELSE w

\* a resetQuietTimer that arms the new timer without stopQuietTimer
resetQuietTimerKeepsOld(w) == [setTimer(w, "quiet") EXCEPT !.overlay.quietTimer = TRUE]

resetQuietTimer(w) ==
  [setTimer(stopQuietTimer(w), "quiet") EXCEPT !.overlay.quietTimer = TRUE]

\* intervalRearmed: the armed handsFreeInterval runs the closure of
\* setUpdateInterval, not the one of startHandsFreeUpdates
startHandsFreeUpdates(w) ==
  [setTimer(setTimer(w, "initial"), "interval")
     EXCEPT !.overlay.handsFreeInitialTimeout = TRUE, !.overlay.handsFreeInterval = TRUE,
            !.overlay.intervalRearmed = FALSE]

stopHandsFreeUpdates(w) ==
  LET w1 == IF w.overlay.handsFreeInitialTimeout
            THEN [clearTimer(w, "initial") EXCEPT !.overlay.handsFreeInitialTimeout = FALSE]
            ELSE w
      w2 == IF w1.overlay.handsFreeInterval
            THEN [clearTimer(w1, "interval") EXCEPT !.overlay.handsFreeInterval = FALSE]
            ELSE w1
  IN stopQuietTimer([w2 EXCEPT !.overlay.intervalRearmed = FALSE])

stopTimeout(w) ==
  IF w.overlay.timeoutTimer
  THEN [clearTimer(w, "timeout") EXCEPT !.overlay.timeoutTimer = FALSE]
  ELSE w

\* unregisterActiveSession without the sessionUnregistered flag
unregisterActiveSessionAgain(w) ==
  IF w.overlay.sessionId # None
  THEN [unregisterActive(w, w.overlay.sessionId, FALSE)
          EXCEPT !.overlay.sessionUnregistered = TRUE,
                 !.overlay.unregisterCalls = @ + 1]
  ELSE w

\* unregisterCalls counts the calls of sessionManager.unregisterActive this
\* controller has made
unregisterActiveSession(w) ==
  IF w.overlay.sessionId # None /\ ~w.overlay.sessionUnregistered
  THEN [unregisterActive(w, w.overlay.sessionId, FALSE)
          EXCEPT !.overlay.sessionUnregistered = TRUE,
                 !.overlay.unregisterCalls = @ + 1]
  ELSE w

\* options.onHandsFreeUpdate(update)
Notify(w, status, tail, truncated) ==
  [w EXCEPT !.updates = Append(@,
     [status |-> status, tail |-> tail, tailTruncated |-> truncated,
      totalCharsSent |-> w.overlay.totalCharsSent,
      budgetExhausted |-> w.overlay.budgetExhausted])]

\* emitHandsFreeUpdate that stops calling the consumer once the budget is
\* exhausted
emitSilentWhenExhausted(w) ==
  LET o == w.overlay
      maxChars == o.options.handsFreeUpdateMaxChars
      maxTotalChars == o.options.handsFreeMaxTotalChars
  IN IF ~o.options.onHandsFreeUpdate \/ o.sessionId = None THEN w
     ELSE IF o.budgetExhausted THEN w
     ELSE
       LET read == RawSinceLast(w.ptys[o.session])
           overUpdate == Len(read) > maxChars
           cut1 == IF overUpdate THEN SliceLast(read, maxChars) ELSE read
           overTotal == o.totalCharsSent + Len(cut1) > maxTotalChars
           remaining == maxTotalChars - o.totalCharsSent
           newOutput == IF ~overTotal THEN cut1
                        ELSE IF remaining > 0 THEN SliceLast(cut1, remaining)
                        ELSE <<>>
           truncated == overUpdate \/ (overTotal /\ remaining > 0)
           tail == IF Len(newOutput) > 0 THEN Split(newOutput) ELSE <<>>
           w1 == [w EXCEPT !.ptys[o.session] = AdvanceCursor(@),
                           !.overlay.budgetExhausted = overTotal,
                           !.overlay.totalCharsSent = @ + Len(newOutput)]
       IN Notify(w1, "running", tail, truncated)

\* emitHandsFreeUpdate without the "Check total budget" block
emitWithoutTotalBudget(w) ==
  LET o == w.overlay
      maxChars == o.options.handsFreeUpdateMaxChars
  IN IF ~o.options.onHandsFreeUpdate \/ o.sessionId = None THEN w
     ELSE
       LET read == RawSinceLast(w.ptys[o.session])
           overUpdate == Len(read) > maxChars
           newOutput == IF overUpdate THEN SliceLast(read, maxChars) ELSE read
           tail == IF Len(newOutput) > 0 THEN Split(newOutput) ELSE <<>>
           w1 == [w EXCEPT !.ptys[o.session] = AdvanceCursor(@),
                           !.overlay.totalCharsSent = @ + Len(newOutput)]
       IN Notify(w1, "running", tail, overUpdate)

emitHandsFreeUpdate(w) ==
  LET o == w.overlay
      maxChars == o.options.handsFreeUpdateMaxChars
      maxTotalChars == o.options.handsFreeMaxTotalChars
  IN IF ~o.options.onHandsFreeUpdate \/ o.sessionId = None THEN w
     ELSE IF o.budgetExhausted THEN Notify(w, "running", <<>>, FALSE)
     ELSE
       LET read == RawSinceLast(w.ptys[o.session])
           overUpdate == Len(read) > maxChars
           cut1 == IF overUpdate THEN SliceLast(read, maxChars) ELSE read
           overTotal == o.totalCharsSent + Len(cut1) > maxTotalChars
           remaining == maxTotalChars - o.totalCharsSent
           newOutput == IF ~overTotal THEN cut1
                        ELSE IF remaining > 0 THEN SliceLast(cut1, remaining)
                        ELSE <<>>
           truncated == overUpdate \/ (overTotal /\ remaining > 0)
           tail == IF Len(newOutput) > 0 THEN Split(newOutput) ELSE <<>>
           w1 == [w EXCEPT !.ptys[o.session] = AdvanceCursor(@),
                           !.overlay.budgetExhausted = overTotal,
                           !.overlay.totalCharsSent = @ + Len(newOutput)]
       IN Notify(w1, "running", tail, truncated)

\* "if (this.hasUnsentData || this.updateMode === 'interval') { emit; hasUnsentData = false }"
flushPending(w) ==
  IF w.overlay.hasUnsentData \/ w.overlay.updateMode = "interval"
  THEN [emitHandsFreeUpdate(w) EXCEPT !.overlay.hasUnsentData = FALSE]
  ELSE w

\* The callbacks handed to onComplete run when the session completes: the
\* one of a suspended query settles its race with `true`.
triggerCompleteCallbacks(w) ==
  IF w.overlay.completeCallbacks
  THEN [w EXCEPT !.overlay.completeCallbacks = FALSE,
                 !.query.pc = IF @ = "waiting" THEN "completed" ELSE @]
  ELSE w

\* done(result), and the continuation index.ts hangs on the overlay promise
\* (then / finally): overlayOpen = false. A promise settles once. The
\* session's completion is signalled with the result.
done(w, result) ==
  triggerCompleteCallbacks(
    [w EXCEPT !.doneCalls = Append(@, result),
              !.overlayOpen = IF Len(w.doneCalls) = 0 THEN FALSE ELSE @])

Result(o, kind, exitCode, bgId) ==
  [kind |-> kind, exitCode |-> exitCode,
   backgrounded |-> (kind = "background"), backgroundId |-> bgId,
   cancelled |-> (kind = "kill"), timedOut |-> (kind = "timeout"),
   sessionId |-> o.sessionId, userTookOver |-> o.userTookOver]

\* ---------------------------------------- InteractiveShellOverlay: finishing
finishWithExit(w) ==
  IF w.overlay.finished THEN w
  ELSE
    LET w1 == [w EXCEPT !.overlay.finished = TRUE]
        w2 == unregisterActiveSession(stopHandsFreeUpdates(stopTimeout(stopCountdown(w1))))
        w3 == PtyDispose(w2, w2.overlay.session)
    IN done(w3, Result(w3.overlay, "exit", w3.ptys[w3.overlay.session].exitCode, None))

\* finishWithBackground that disposes the session it hands to the registry
finishWithBackgroundDisposing(w, bgId) ==
  IF w.overlay.finished THEN w
  ELSE
    LET w1 == [w EXCEPT !.overlay.finished = TRUE]
        w2 == unregisterActiveSession(stopHandsFreeUpdates(stopTimeout(stopCountdown(w1))))
        w3 == PtyDispose(add(w2, bgId, w2.overlay.session), w2.overlay.session)
    IN done(w3, Result(w3.overlay, "background", "null", bgId))

\* bgId: what generateSessionId(options.name) returns inside sessionManager.add
finishWithBackground(w, bgId) ==
  IF w.overlay.finished THEN w
  ELSE
    LET w1 == [w EXCEPT !.overlay.finished = TRUE]
        w2 == unregisterActiveSession(stopHandsFreeUpdates(stopTimeout(stopCountdown(w1))))
        w3 == add(w2, bgId, w2.overlay.session)
    IN done(w3, Result(w3.overlay, "background", "null", bgId))

\* finishWithKill that, called on a finished controller, unregisters its id
\* once more, with releaseId = true
finishWithKillReleasingAgain(w) ==
  IF w.overlay.finished
  THEN IF w.overlay.sessionId # None
       THEN unregisterActive(w, w.overlay.sessionId, TRUE) ELSE w
  ELSE
    LET w1 == [w EXCEPT !.overlay.finished = TRUE]
        w2 == unregisterActiveSession(stopHandsFreeUpdates(stopTimeout(stopCountdown(w1))))
        w3 == PtyDispose(PtyKill(w2, w2.overlay.session), w2.overlay.session)
    IN done(w3, Result(w3.overlay, "kill", "null", None))

\* finishWithKill without "if (this.finished) return"
finishWithKillUnguarded(w) ==
  LET w1 == [w EXCEPT !.overlay.finished = TRUE]
      w2 == unregisterActiveSession(stopHandsFreeUpdates(stopTimeout(stopCountdown(w1))))
      w3 == PtyDispose(PtyKill(w2, w2.overlay.session), w2.overlay.session)
  IN done(w3, Result(w3.overlay, "kill", "null", None))

finishWithKill(w) ==
  IF w.overlay.finished THEN w
  ELSE
    LET w1 == [w EXCEPT !.overlay.finished = TRUE]
        w2 == unregisterActiveSession(stopHandsFreeUpdates(stopTimeout(stopCountdown(w1))))
        w3 == PtyDispose(PtyKill(w2, w2.overlay.session), w2.overlay.session)
    IN done(w3, Result(w3.overlay, "kill", "null", None))

\* finishWithTimeout that leaves a controller alone while its detach dialog
\* is open
finishWithTimeoutUnlessDialog(w) ==
  IF w.overlay.finished \/ w.overlay.state = "detach-dialog" THEN w
  ELSE
    LET w1 == stopTimeout(stopCountdown([w EXCEPT !.overlay.finished = TRUE]))
        w2 == IF /\ w1.overlay.state = "hands-free"
                 /\ w1.overlay.options.onHandsFreeUpdate
                 /\ w1.overlay.sessionId # None
              THEN Notify(flushPending(w1), "exited", <<>>, FALSE)
              ELSE w1
        w3 == unregisterActiveSession(stopHandsFreeUpdates(w2))
        w4 == [w3 EXCEPT !.overlay.timedOut = TRUE]
        w5 == PtyDispose(PtyKill(w4, w4.overlay.session), w4.overlay.session)
    IN done(w5, Result(w5.overlay, "timeout", "null", None))

finishWithTimeout(w) ==
  IF w.overlay.finished THEN w
  ELSE
    LET w1 == stopTimeout(stopCountdown([w EXCEPT !.overlay.finished = TRUE]))
        w2 == IF /\ w1.overlay.state = "hands-free"
                 /\ w1.overlay.options.onHandsFreeUpdate
                 /\ w1.overlay.sessionId # None
              THEN Notify(flushPending(w1), "exited", <<>>, FALSE)
              ELSE w1
        w3 == unregisterActiveSession(stopHandsFreeUpdates(w2))
        w4 == [w3 EXCEPT !.overlay.timedOut = TRUE]
        w5 == PtyDispose(PtyKill(w4, w4.overlay.session), w4.overlay.session)
    IN done(w5, Result(w5.overlay, "timeout", "null", None))

\* --------------------------------------- InteractiveShellOverlay: callbacks
\* the onData handler given to the session
onData(w) ==
  IF w.overlay.state = "hands-free" /\ w.overlay.updateMode = "on-quiet"
  THEN resetQuietTimer([w EXCEPT !.overlay.hasUnsentData = TRUE])
  ELSE w

\* an onExit that leaves an open detach dialog open
onExitKeepsDialog(w) ==
  IF w.overlay.finished THEN w
  ELSE
    LET w1 == stopHandsFreeUpdates(stopTimeout(w))
        w2 == [w1 EXCEPT !.overlay.state =
                           IF @ = "detach-dialog" THEN "detach-dialog" ELSE "exited",
                         !.overlay.exitCountdown = w1.overlay.config.exitAutoCloseDelay]
    IN startExitCountdown(w2)

\* the onExit handler given to the session
onExit(w) ==
  IF w.overlay.finished THEN w
  ELSE
    LET w1 == stopTimeout(w)
        w2 == IF /\ w1.overlay.state = "hands-free"
                 /\ w1.overlay.options.onHandsFreeUpdate
                 /\ w1.overlay.sessionId # None
              THEN unregisterActiveSession(Notify(flushPending(w1), "exited", <<>>, FALSE))
              ELSE w1
        w3 == stopHandsFreeUpdates(w2)
        w4 == [w3 EXCEPT !.overlay.state = "exited",
                         !.overlay.exitCountdown = w3.overlay.config.exitAutoCloseDelay]
    IN startExitCountdown(w4)

\* the callback of handsFreeInitialTimeout
initialTimeoutCallback(w) ==
  LET w1 == [timerFired(w, "initial") EXCEPT !.overlay.handsFreeInitialTimeout = FALSE]
  IN IF w1.overlay.state = "hands-free" THEN emitHandsFreeUpdate(w1) ELSE w1

\* the callback startHandsFreeUpdates arms handsFreeInterval with
intervalCallback(w) ==
  IF w.overlay.state # "hands-free" THEN w
  ELSE IF w.overlay.updateMode = "on-quiet"
       THEN IF w.overlay.hasUnsentData
            THEN stopQuietTimer([emitHandsFreeUpdate(w) EXCEPT !.overlay.hasUnsentData = FALSE])
            ELSE w
       ELSE emitHandsFreeUpdate(w)

\* the interval callback of setUpdateInterval that emits on every tick
rearmedCallbackAlwaysEmits(w) ==
  IF w.overlay.state # "hands-free" THEN w ELSE emitHandsFreeUpdate(w)

\* the callback setUpdateInterval arms handsFreeInterval with
rearmedIntervalCallback(w) ==
  IF w.overlay.state # "hands-free" THEN w
  ELSE IF w.overlay.updateMode = "on-quiet"
       THEN IF w.overlay.hasUnsentData
            THEN stopQuietTimer([emitHandsFreeUpdate(w) EXCEPT !.overlay.hasUnsentData = FALSE])
            ELSE w
       ELSE emitHandsFreeUpdate(w)

\* handsFreeInterval fires: the closure it was armed with runs
handsFreeIntervalFires(w) ==
  IF w.overlay.intervalRearmed THEN rearmedIntervalCallback(w) ELSE intervalCallback(w)

\* the callback of quietTimer
quietCallback(w) ==
  LET w1 == [timerFired(w, "quiet") EXCEPT !.overlay.quietTimer = FALSE]
  IN IF w1.overlay.state = "hands-free" /\ w1.overlay.hasUnsentData
     THEN [emitHandsFreeUpdate(w1) EXCEPT !.overlay.hasUnsentData = FALSE]
     ELSE w1

\* the countdownInterval callback that stops at zero without finishWithExit
countdownCallbackStopsAtZero(w) ==
  LET w1 == [w EXCEPT !.overlay.exitCountdown = @ - 1]
  IN IF w1.overlay.exitCountdown <= 0 THEN stopCountdown(w1) ELSE w1

\* the callback of countdownInterval
countdownCallback(w) ==
  LET w1 == [w EXCEPT !.overlay.exitCountdown = @ - 1]
  IN IF w1.overlay.exitCountdown <= 0 THEN finishWithExit(w1) ELSE w1

Clamp(lo, hi, x) == Max(lo, Min(hi, x))

setUpdateInterval(w, intervalMs) ==
  LET clamped == Clamp(MIN_INTERVAL, MAX_INTERVAL, intervalMs)
  IN IF clamped = w.overlay.currentUpdateInterval THEN w
     ELSE [(IF w.overlay.handsFreeInterval
            THEN setTimer(clearTimer(w, "interval"), "interval") ELSE w)
             EXCEPT !.overlay.currentUpdateInterval = clamped,
                    !.overlay.intervalRearmed = w.overlay.handsFreeInterval]
     \* an armed handsFreeInterval is cleared and armed again, with the
     \* closure written in setUpdateInterval

\* triggerUserTakeover that leaves the controller in hands-free
triggerUserTakeoverKeepsState(w) ==
  IF w.overlay.state # "hands-free" \/ w.overlay.sessionId = None THEN w
  ELSE
    LET w1 == unregisterActiveSession(stopHandsFreeUpdates(flushPending(w)))
        w2 == [w1 EXCEPT !.overlay.userTookOver = TRUE]
    IN IF w2.overlay.options.onHandsFreeUpdate
       THEN Notify(w2, "user-takeover", <<>>, FALSE)
       ELSE w2

triggerUserTakeover(w) ==
  IF w.overlay.state # "hands-free" \/ w.overlay.sessionId = None THEN w
  ELSE
    LET w1 == unregisterActiveSession(stopHandsFreeUpdates(flushPending(w)))
        w2 == [w1 EXCEPT !.overlay.state = "running", !.overlay.userTookOver = TRUE]
    IN IF w2.overlay.options.onHandsFreeUpdate
       THEN Notify(w2, "user-takeover", <<>>, FALSE)
       ELSE w2

\* handleDoubleEscape returns true when the previous Escape was less than
\* doubleEscapeThreshold ago; escapeRecent stands for
\* "now - lastEscapeTime < doubleEscapeThreshold".
handleDoubleEscape(w) ==
  IF w.overlay.escapeRecent
  THEN [hit |-> TRUE, w |-> [w EXCEPT !.overlay.escapeRecent = FALSE]]
  ELSE [hit |-> FALSE, w |-> [w EXCEPT !.overlay.escapeRecent = TRUE]]

DialogChoices == <<"kill", "background", "cancel">>
IndexOf(seq, x) == CHOOSE i \in 1..Len(seq) : seq[i] = x

\* handleDialogInput whose Escape and `cancel` return a hands-free session to
\* hands-free
handleDialogInputResumes(w, data, bgId) ==
  LET back == IF w.overlay.options.mode = "hands-free" THEN "hands-free" ELSE "running"
  IN IF data = "escape" THEN [w EXCEPT !.overlay.state = back]
     ELSE IF data \in {"up", "down"}
     THEN LET currentIdx == IndexOf(DialogChoices, w.overlay.dialogSelection) - 1
              direction == IF data = "up" THEN -1 ELSE 1
              newIdx == (currentIdx + direction + Len(DialogChoices)) % Len(DialogChoices)
          IN [w EXCEPT !.overlay.dialogSelection = DialogChoices[newIdx + 1]]
     ELSE IF data = "enter"
     THEN CASE w.overlay.dialogSelection = "kill" -> finishWithKill(w)
            [] w.overlay.dialogSelection = "background" -> finishWithBackground(w, bgId)
            [] OTHER -> [w EXCEPT !.overlay.state = back]
     ELSE w

\* handleDialogInput whose `cancel` kills the session
handleDialogInputCancelKills(w, data, bgId) ==
  IF data = "escape" THEN [w EXCEPT !.overlay.state = "running"]
  ELSE IF data \in {"up", "down"}
  THEN LET currentIdx == IndexOf(DialogChoices, w.overlay.dialogSelection) - 1
           direction == IF data = "up" THEN -1 ELSE 1
           newIdx == (currentIdx + direction + Len(DialogChoices)) % Len(DialogChoices)
       IN [w EXCEPT !.overlay.dialogSelection = DialogChoices[newIdx + 1]]
  ELSE IF data = "enter"
  THEN CASE w.overlay.dialogSelection = "background" -> finishWithBackground(w, bgId)
         [] OTHER -> finishWithKill(w)
  ELSE w

handleDialogInput(w, data, bgId) ==
  IF data = "escape" THEN [w EXCEPT !.overlay.state = "running"]
  ELSE IF data \in {"up", "down"}
  THEN LET currentIdx == IndexOf(DialogChoices, w.overlay.dialogSelection) - 1
           direction == IF data = "up" THEN -1 ELSE 1
           newIdx == (currentIdx + direction + Len(DialogChoices)) % Len(DialogChoices)
       IN [w EXCEPT !.overlay.dialogSelection = DialogChoices[newIdx + 1]]
  ELSE IF data = "enter"
  THEN CASE w.overlay.dialogSelection = "kill" -> finishWithKill(w)
         [] w.overlay.dialogSelection = "background" -> finishWithBackground(w, bgId)
         [] OTHER -> [w EXCEPT !.overlay.state = "running"]
  ELSE w

\* handleInput without the two scroll branches: a scroll key is any other input
handleInputScrollIsInput(w, data, bgId) ==
  IF w.overlay.state = "detach-dialog" THEN handleDialogInput(w, data, bgId)
  ELSE IF w.overlay.state = "exited" THEN finishWithExit(w)
  ELSE IF data = "escape"
  THEN LET r == handleDoubleEscape(w)
       IN IF r.hit
          THEN LET w1 == IF r.w.overlay.state = "hands-free"
                         THEN triggerUserTakeover(r.w) ELSE r.w
               IN [w1 EXCEPT !.overlay.state = "detach-dialog",
                             !.overlay.dialogSelection = "background"]
          ELSE PtyWrite(r.w, r.w.overlay.session, "escape")
  ELSE LET w1 == IF w.overlay.state = "hands-free" THEN triggerUserTakeover(w) ELSE w
       IN PtyWrite(w1, w1.overlay.session, data)

\* handleInput that opens the detach dialog before it calls
\* triggerUserTakeover
handleInputDialogFirst(w, data, bgId) ==
  IF w.overlay.state = "detach-dialog" THEN handleDialogInput(w, data, bgId)
  ELSE IF w.overlay.state = "exited" THEN finishWithExit(w)
  ELSE IF data = "escape"
  THEN LET r == handleDoubleEscape(w)
       IN IF r.hit
          THEN LET w1 == [r.w EXCEPT !.overlay.state = "detach-dialog",
                                     !.overlay.dialogSelection = "background"]
               IN IF r.w.overlay.state = "hands-free" THEN triggerUserTakeover(w1) ELSE w1
          ELSE PtyWrite(r.w, r.w.overlay.session, "escape")
  ELSE IF data \in {"shift+up", "shift+down"} THEN w
  ELSE LET w1 == IF w.overlay.state = "hands-free" THEN triggerUserTakeover(w) ELSE w
       IN PtyWrite(w1, w1.overlay.session, data)

handleInput(w, data, bgId) ==
  IF w.overlay.state = "detach-dialog" THEN handleDialogInput(w, data, bgId)
  ELSE IF w.overlay.state = "exited" THEN finishWithExit(w)
  ELSE IF data = "escape"
  THEN LET r == handleDoubleEscape(w)
       IN IF r.hit
          THEN LET w1 == IF r.w.overlay.state = "hands-free"
                         THEN triggerUserTakeover(r.w) ELSE r.w
               IN [w1 EXCEPT !.overlay.state = "detach-dialog",
                             !.overlay.dialogSelection = "background"]
          ELSE PtyWrite(r.w, r.w.overlay.session, "escape")
  ELSE IF data \in {"shift+up", "shift+down"} THEN w
  ELSE LET w1 == IF w.overlay.state = "hands-free" THEN triggerUserTakeover(w) ELSE w
       IN PtyWrite(w1, w1.overlay.session, data)

dispose(w) ==
  unregisterActiveSession(stopHandsFreeUpdates(stopTimeout(stopCountdown(w))))

\* ------------------------------------------------------- start of a session
\* What a start request and the configuration can ask for.
Options(modes, consumers, updateModes, timeouts, names, maxChars, maxTotals) ==
  [mode : modes, onHandsFreeUpdate : consumers, handsFreeUpdateMode : updateModes,
   timeout : timeouts, name : names, handsFreeUpdateMaxChars : maxChars,
   handsFreeMaxTotalChars : maxTotals]

\* The options explored for one controller in detail: index.ts passes
\* onHandsFreeUpdate only for a hands-free session.
ControllerOptions ==
  {o \in Options({"interactive", "hands-free"}, BOOLEAN, {"on-quiet", "interval"},
                 BOOLEAN, {"a"}, {MaxBudget}, {MaxBudget}) :
     /\ o.onHandsFreeUpdate = (o.mode = "hands-free")
     /\ o.mode = "interactive" => o.handsFreeUpdateMode = "on-quiet"}

IntervalInputs == {1000, 60000}

Configs == [exitAutoCloseDelay : {MaxCountdown}, handsFreeUpdateInterval : {60000}]

\* No ReattachOverlay has been constructed.
NoReattach ==
  [mounted |-> FALSE, id |-> None, session |-> 0, config |-> None,
   state |-> "running", dialogSelection |-> "background", exitCountdown |-> 0,
   countdownInterval |-> FALSE, initialExitTimeout |-> FALSE, finished |-> FALSE,
   doneCalls |-> 0]

NoOverlay ==
  [inst |-> 0, mounted |-> FALSE, options |-> None, config |-> None,
   session |-> 0, state |-> "running", dialogSelection |-> "background",
   exitCountdown |-> 0, escapeRecent |-> FALSE, countdownInterval |-> FALSE,
   userTookOver |-> FALSE, handsFreeInterval |-> FALSE, intervalRearmed |-> FALSE,
   handsFreeInitialTimeout |-> FALSE, sessionId |-> None,
   sessionUnregistered |-> FALSE, unregisterCalls |-> 0, timeoutTimer |-> FALSE, timedOut |-> FALSE,
   finished |-> FALSE, totalCharsSent |-> 0, budgetExhausted |-> FALSE,
   currentUpdateInterval |-> 0, updateMode |-> "on-quiet", quietTimer |-> FALSE,
   hasUnsentData |-> FALSE, lastQueryRecent |-> FALSE, completeCallbacks |-> FALSE,
   pending |-> [kind \in TimerKinds |-> 0]]

\* new InteractiveShellOverlay(tui, theme, options, config, done), with
\* options.sessionId = id (None for an interactive session)
construct(w, options, config, id) ==
  LET p == Len(w.ptys) + 1
      w1 == [w EXCEPT
               !.ptys = Append(@, NewPty),
               !.starts = @ + 1,
               !.updates = <<>>,
               !.doneCalls = <<>>,
               !.overlay = [NoOverlay EXCEPT
                  !.inst = w.starts + 1, !.mounted = TRUE, !.options = options,
                  !.config = config, !.session = p,
                  !.updateMode = options.handsFreeUpdateMode,
                  !.currentUpdateInterval = config.handsFreeUpdateInterval]]
      w2 == IF options.mode = "hands-free"
            THEN startHandsFreeUpdates(registerActive(
                   [w1 EXCEPT !.overlay.state = "hands-free", !.overlay.sessionId = id],
                   id, w1.overlay.inst))
            ELSE w1
  IN IF options.timeout
     THEN [setTimer(w2, "timeout") EXCEPT !.overlay.timeoutTimer = TRUE]
     ELSE w2

\* execute() of the tool with a command: the overlay_already_open check, the
\* early generateSessionId for a hands-free session, overlayOpen = true and
\* ctx.ui.custom(...) building the overlay.
execute_start(w, options, config, id) ==
  LET params == [NoParams EXCEPT !.command = TRUE]
  IN IF w.overlayOpen
     THEN Answer(w, params, [NoDetails EXCEPT !.isError = TRUE,
                                              !.error = "overlay_already_open"])
     ELSE LET w1 == IF options.mode = "hands-free"
                    THEN [w EXCEPT !.usedIds = @ \cup {id}] ELSE w
              w2 == construct([w1 EXCEPT !.overlayOpen = TRUE], options, config,
                              IF options.mode = "hands-free" THEN id ELSE None)
          IN IF options.mode = "hands-free"
             THEN Answer(w2, params, [NoDetails EXCEPT !.status = "running"])
             ELSE w2   \* an interactive start is answered when the overlay is done

\* ------------------------------------------- handles of an active session
\* writeToActive that hands the driver's data to the overlay's handleInput
writeToActiveAsUserInput(w, id, data) ==
  IF id \notin DOMAIN w.activeSessions THEN w
  ELSE IF w.activeSessions[id] # w.overlay.inst THEN w
  ELSE handleInput(w, data, None)

\* writeToActive(id, data): the write handle registered by the constructor,
\* (data) => this.session.write(data)
writeToActive(w, id, data) ==
  IF id \notin DOMAIN w.activeSessions THEN w
  ELSE IF w.activeSessions[id] # w.overlay.inst THEN w
  ELSE PtyWrite(w, w.overlay.session, data)

setActiveUpdateInterval(w, id, intervalMs) ==
  IF id \notin DOMAIN w.activeSessions THEN w
  ELSE IF w.activeSessions[id] # w.overlay.inst THEN w
  ELSE setUpdateInterval(w, intervalMs)

\* The kill handle of an active session: the controller kills its session and
\* finishes.
killHandle(w, inst) == IF w.overlay.inst = inst THEN finishWithKill(w) ELSE w

\* execute with sessionId and kill: session.kill(); unregisterActive(id, true)
execute_kill(w, id) ==
  IF id \notin DOMAIN w.activeSessions THEN w
  ELSE unregisterActive(killHandle(w, w.activeSessions[id]), id, TRUE)

\* ---------------------------------- the controller's handle: status reads
\* getResult: the result done was called with, once the session has completed
getResult(w) == IF Len(w.doneCalls) > 0 THEN <<w.doneCalls[1]>> ELSE <<>>

\* getStatus: an ActiveSessionStatus
getStatus(w) ==
  IF Len(w.doneCalls) > 0
  THEN CASE w.doneCalls[1].kind = "kill" -> "killed"
         [] w.doneCalls[1].kind = "background" -> "backgrounded"
         [] OTHER -> "exited"
  ELSE IF w.overlay.state = "exited" THEN "exited"
  ELSE IF w.overlay.userTookOver THEN "user-takeover"
  ELSE "running"

\* getOutput(options): a read that comes less than minQueryIntervalSeconds
\* after the last one is answered rateLimited with waitSeconds > 0, and a
\* read that is served records its time; with skipRateLimit the rate limit is
\* bypassed entirely.
getOutput(w, skipRateLimit) ==
  IF skipRateLimit THEN [rateLimited |-> FALSE, w |-> w]
  ELSE IF w.overlay.lastQueryRecent THEN [rateLimited |-> TRUE, w |-> w]
  ELSE [rateLimited |-> FALSE, w |-> [w EXCEPT !.overlay.lastQueryRecent = TRUE]]

\* onComplete(callback) of the query with params, which suspends in the race
onComplete(w, params) ==
  [w EXCEPT !.overlay.completeCallbacks = TRUE,
            !.query = [pc |-> "waiting", params |-> params]]

\* ------------------------------------ execute with sessionId (index.ts)
getActive(w, id) == id \in DOMAIN w.activeSessions

\* status, with the completion result when there is one
StatusDetails(w) == [NoDetails EXCEPT !.status = getStatus(w), !.result = getResult(w)]

\* "If only querying status": a completed session is read with the rate limit
\* skipped and unregistered; a running one is read under the rate limit and
\* the call suspends when the read is rateLimited.
execute_status(w, params) ==
  IF getResult(w) # <<>>
  THEN LET r == getOutput(w, TRUE)
       IN Answer(unregisterActive(r.w, params.sessionId, TRUE), params, StatusDetails(r.w))
  ELSE LET outputResult == getOutput(w, FALSE)
       IN IF outputResult.rateLimited
          THEN onComplete(outputResult.w, params)
          ELSE Answer(outputResult.w, params, StatusDetails(outputResult.w))

\* The race was won by the session's completion (completedEarly).
query_completedEarly(w) ==
  LET params == w.query.params
      w0 == [w EXCEPT !.query = NoQuery]
      resumed(v) == [v EXCEPT !.lastCall.resumed = "completion"]
  IN IF ~getActive(w0, params.sessionId)
     THEN resumed(Answer(w0, params, [NoDetails EXCEPT !.status = "ended"]))
     ELSE LET r == getOutput(w0, TRUE)
          IN IF getResult(r.w) # <<>>
             THEN resumed(Answer(unregisterActive(r.w, params.sessionId, TRUE),
                                 params, StatusDetails(r.w)))
             ELSE resumed(Answer(r.w, params, StatusDetails(r.w)))

\* The race was won by the rate-limit timer: "Get fresh output after waiting",
\* through the handle looked up before the wait.
query_freshOutput(w) ==
  LET params == w.query.params
      w0 == [w EXCEPT !.query = NoQuery]
      r == getOutput(w0, FALSE)
      resumed(v) == [v EXCEPT !.lastCall.resumed = "timer"]
  IN IF getResult(r.w) # <<>>
     THEN resumed(Answer(unregisterActive(r.w, params.sessionId, TRUE),
                         params, StatusDetails(r.w)))
     ELSE resumed(Answer(r.w, params, StatusDetails(r.w)))

\* execute that reads under the rate limit before it kills, and waits when
\* the read is refused
executeKillRateLimited(w, params) ==
  LET id == params.sessionId
  IN IF ~getActive(w, id)
     THEN Answer(w, params, [NoDetails EXCEPT !.isError = TRUE,
                                              !.error = "session_not_found"])
     ELSE IF getOutput(w, FALSE).rateLimited THEN onComplete(w, params)
     ELSE IF params.kill
     THEN Answer(execute_kill(getOutput(w, FALSE).w, id), params,
                 [NoDetails EXCEPT !.status = "killed"])
     ELSE execute_status(w, params)

\* execute that applies the settings and sends the input before it looks at
\* kill
executeKillLast(w, params) ==
  LET id == params.sessionId
  IN IF ~getActive(w, id)
     THEN Answer(w, params, [NoDetails EXCEPT !.isError = TRUE,
                                              !.error = "session_not_found"])
     ELSE
       LET w1 == IF params.settings # NoSetting
                 THEN setActiveUpdateInterval(w, id, params.settings) ELSE w
           w2 == IF params.input # NoInput THEN writeToActive(w1, id, params.input) ELSE w1
       IN IF params.kill
          THEN Answer(execute_kill(getOutput(w2, TRUE).w, id), params,
                      [NoDetails EXCEPT !.status = "killed"])
          ELSE IF params.settings = NoSetting /\ params.input = NoInput
          THEN execute_status(w2, params)
          ELSE Answer(w2, params, [NoDetails EXCEPT !.actions = {"applied"}])

\* execute without the lookup of the session: the request goes to the
\* controller that was started under the id
executeWithoutLookup(w, params) ==
  LET id == params.sessionId
  IN IF params.kill
     THEN Answer(unregisterActive(finishWithKill(w), id, TRUE), params,
                 [NoDetails EXCEPT !.status = "killed"])
     ELSE
       LET w1 == IF params.settings # NoSetting
                 THEN setUpdateInterval(w, params.settings) ELSE w
           w2 == IF params.input # NoInput
                 THEN PtyWrite(w1, w1.overlay.session, params.input) ELSE w1
       IN IF params.settings = NoSetting /\ params.input = NoInput
          THEN execute_status(w2, params)
          ELSE Answer(w2, params, [NoDetails EXCEPT !.actions = {"applied"}])

\* execute(params) with params.sessionId set. The input is written as it is
\* translated; the translation is not looked into.
execute(w, params) ==
  LET id == params.sessionId
  IN IF ~getActive(w, id)
     THEN Answer(w, params, [NoDetails EXCEPT !.isError = TRUE,
                                              !.error = "session_not_found"])
     ELSE IF params.kill
     THEN Answer(execute_kill(getOutput(w, TRUE).w, id), params,
                 [NoDetails EXCEPT !.status = "killed"])
     ELSE
       LET setting == params.settings # NoSetting
           w1 == IF setting THEN setActiveUpdateInterval(w, id, params.settings) ELSE w
           sending == params.input # NoInput
           w2 == IF sending THEN writeToActive(w1, id, params.input) ELSE w1
           actions == (IF setting THEN {"settings"} ELSE {})
                      \cup (IF sending THEN {"input"} ELSE {})
       IN IF sending /\ ~getActive(w1, id)
          THEN Answer(w2, params, [NoDetails EXCEPT !.isError = TRUE,
                                                   !.error = "write_failed"])
          ELSE IF actions = {} THEN execute_status(w2, params)
          ELSE Answer(w2, params, [NoDetails EXCEPT !.actions = actions])

\* A continuation that waits on a settled promise runs before the next event.
drainMicrotasks(w) == IF w.query.pc = "completed" THEN query_completedEarly(w) ELSE w

\* ------------------------------------------------------ end of a handler
Commit(handled) ==
  LET w == drainMicrotasks(handled) IN
  /\ overlayOpen' = w.overlayOpen
  /\ attach' = w.attach
  /\ usedIds' = w.usedIds
  /\ activeSessions' = w.activeSessions
  /\ sessions' = w.sessions
  /\ exitWatchers' = w.exitWatchers
  /\ cleanupTimers' = w.cleanupTimers
  /\ minimizedSessions' = w.minimizedSessions
  /\ minimizedExitWatchers' = w.minimizedExitWatchers
  /\ minimizedCleanupTimers' = w.minimizedCleanupTimers
  /\ timers' = w.timers
  /\ ptys' = w.ptys
  /\ overlay' = w.overlay
  /\ reattach' = w.reattach
  /\ updates' = w.updates
  /\ doneCalls' = w.doneCalls
  /\ starts' = w.starts
  /\ lastCall' = w.lastCall
  /\ query' = w.query
  /\ translated' = w.translated

\* ---------------------------------------------------------------- actions
Init ==
  /\ overlayOpen = FALSE
  /\ attach = [pc |-> "idle", listed |-> {}]
  /\ usedIds = {}
  /\ activeSessions = EmptyMap
  /\ sessions = EmptyMap
  /\ exitWatchers = EmptyMap
  /\ cleanupTimers = EmptyMap
  /\ minimizedSessions = EmptyMap
  /\ minimizedExitWatchers = EmptyMap
  /\ minimizedCleanupTimers = EmptyMap
  /\ timers = {}
  /\ ptys = <<>>
  /\ overlay = NoOverlay
  /\ reattach = NoReattach
  /\ updates = <<>>
  /\ doneCalls = <<>>
  /\ starts = 0
  /\ lastCall = NoCall
  /\ query = NoQuery
  /\ translated = None

\* The shell overlay's handlers are the ones installed on session p.
ShellHandles(w, p) ==
  /\ w.overlay.inst > 0
  /\ w.overlay.session = p
  /\ w.ptys[p].handlers = "shell"

Start(limit, optionSet) ==
  /\ starts < limit
  /\ ~overlayOpen
  /\ \E options \in optionSet, config \in Configs :
       \E id \in generateSessionId(options.name, usedIds) :
         Commit(execute_start(World, options, config, id))

\* The child prints c: the session appends it to the raw log, then onData.
ChildData(cap) ==
  \E p \in 1..Len(ptys), c \in Chars :
    /\ ~ptys[p].exited
    /\ Len(ptys[p].rawOutput) < cap
    /\ LET w1 == [World EXCEPT !.ptys[p].rawOutput = Append(@, c)]
       IN Commit(IF ShellHandles(w1, p) THEN onData(w1) ELSE w1)

\* The child ends: the session records it, appends the exit status line to
\* the raw log (no onData for it), then onExit.
ChildExit ==
  \E p \in 1..Len(ptys), code \in {"0", "1"} :
    /\ ~ptys[p].exited
    /\ LET w1 == [World EXCEPT !.ptys[p].exited = TRUE, !.ptys[p].exitCode = code,
                               !.ptys[p].rawOutput = Append(@, StatusLine)]
       IN Commit(IF ShellHandles(w1, p) THEN onExit(w1) ELSE w1)

InitialTimeoutFires ==
  /\ overlay.handsFreeInitialTimeout
  /\ Len(updates) < MaxUpdates
  /\ Commit(initialTimeoutCallback(World))

IntervalTick ==
  /\ overlay.handsFreeInterval
  /\ Len(updates) < MaxUpdates
  /\ Commit(handsFreeIntervalFires(World))

QuietTimerFires ==
  /\ overlay.quietTimer
  /\ Len(updates) < MaxUpdates
  /\ Commit(quietCallback(World))

CountdownTick ==
  /\ overlay.countdownInterval
  /\ Commit(countdownCallback(World))

TimeoutFires ==
  /\ overlay.timeoutTimer
  /\ Commit(finishWithTimeout(timerFired(World, "timeout")))

Keys == {"a", "escape", "shift+up", "shift+down", "up", "down", "enter"}

\* The TUI hands a key press to the overlay it shows.
UserInput ==
  /\ overlay.mounted
  /\ \E data \in Keys :
       \E bgId \in generateSessionId(overlay.options.name, usedIds) :
         LET w1 == handleInput(World, data, bgId)
         IN /\ Len(w1.ptys[overlay.session].written) <= MaxWrites
            /\ Commit(w1)

\* More than doubleEscapeThreshold passes after an Escape.
EscapeWindowExpires ==
  /\ overlay.escapeRecent
  /\ Commit([World EXCEPT !.overlay.escapeRecent = FALSE])

DriverInput ==
  /\ overlay.inst > 0
  /\ Len(ptys[overlay.session].written) < MaxWrites
  /\ \E id \in DOMAIN activeSessions : Commit(writeToActive(World, id, "driver"))

DriverSettings ==
  \E id \in DOMAIN activeSessions, ms \in IntervalInputs :
    Commit(setActiveUpdateInterval(World, id, ms))

\* The TUI drops the overlay component.
Dispose ==
  /\ overlay.mounted
  /\ Commit(dispose([World EXCEPT !.overlay.mounted = FALSE]))

Next ==
  \/ Start(1, ControllerOptions)
  \/ ChildData(MaxRaw)
  \/ ChildExit
  \/ InitialTimeoutFires
  \/ IntervalTick
  \/ QuietTimerFires
  \/ CountdownTick
  \/ TimeoutFires
  \/ UserInput
  \/ EscapeWindowExpires
  \/ DriverInput
  \/ DriverSettings
  \/ Dispose

Spec == Init /\ [][Next]_vars

\* The same events with the overlay component dropped only once it has
\* called done (the TUI removes an overlay when its promise settles), and
\* with every armed interval eventually ticking.
DisposeWhenDone ==
  /\ overlay.finished
  /\ Dispose

NextLive ==
  \/ Start(1, ControllerOptions)
  \/ ChildData(1)
  \/ ChildExit
  \/ InitialTimeoutFires
  \/ IntervalTick
  \/ QuietTimerFires
  \/ CountdownTick
  \/ TimeoutFires
  \/ UserInput
  \/ EscapeWindowExpires
  \/ DriverInput
  \/ DriverSettings
  \/ DisposeWhenDone

\* setInterval keeps firing while the interval is armed: weak fairness of
\* CountdownTick, WF_vars(CountdownTick), with ENABLED <<CountdownTick>>_vars
\* written out as the guard of that action (the callback always decrements)
CountdownFair ==
  <>[](overlay.countdownInterval) => []<><<CountdownTick>>_vars
SpecLive == Init /\ [][NextLive]_vars /\ CountdownFair

\* One hands-free session with a consumer, with caps of several sizes, and
\* the events that bear on its emissions.
EmitOptions ==
  Options({"hands-free"}, {TRUE}, {"on-quiet", "interval"}, {FALSE}, {"a"},
          {MaxBudget, MaxBudget + 1}, {MaxBudget, MaxBudget + 2})

NextEmit ==
  \/ Start(1, EmitOptions)
  \/ ChildData(MaxRaw)
  \/ ChildExit
  \/ QuietTimerFires
  \/ InitialTimeoutFires
  \/ IntervalTick
  \/ CountdownTick
  \/ DriverSettings
  \/ Dispose

SpecEmit == Init /\ [][NextEmit]_vars

\* ------------------------------------------------------------ key-encoding
\* A string is the sequence of its character codes; an optional field of a
\* structured input is <<>> when absent and <<value>> when present.
Letters == <<"a", "b", "c", "d", "e", "f", "g", "h", "i", "j", "k", "l", "m",
             "n", "o", "p", "q", "r", "s", "t", "u", "v", "w", "x", "y", "z">>
CodeOf(c) ==
  CASE c = " " -> 32 [] c = "+" -> 43 [] c = "-" -> 45 [] c = "0" -> 48
    [] c = "1" -> 49 [] c = "2" -> 50 [] c = "3" -> 51 [] c = "4" -> 52
    [] c = "7" -> 55 [] c = "B" -> 66 [] c = "X" -> 88 [] c = "Z" -> 90
    [] OTHER -> 96 + IndexOf(Letters, c)
Str(cs) == [i \in 1..Len(cs) |-> CodeOf(cs[i])]

ESC == 27
ToLowerCase(s) == [i \in 1..Len(s) |-> IF s[i] \in 65..90 THEN s[i] + 32 ELSE s[i]]
ToUpperCase(s) == [i \in 1..Len(s) |-> IF s[i] \in 97..122 THEN s[i] - 32 ELSE s[i]]
IsSpace(c) == c \in {9, 10, 13, 32}
RECURSIVE Trim(_)
Trim(s) ==
  IF s = <<>> THEN s
  ELSE IF IsSpace(s[1]) THEN Trim(Tail(s))
  ELSE IF IsSpace(s[Len(s)]) THEN Trim(SubSeq(s, 1, Len(s) - 1))
  ELSE s
StartsWith(s, prefix) == Len(s) >= Len(prefix) /\ SubSeq(s, 1, Len(prefix)) = prefix
Slice(s, k) == SubSeq(s, k + 1, Len(s))
RECURSIVE Concat(_)
Concat(ss) == IF ss = <<>> THEN <<>> ELSE ss[1] \o Concat(Tail(ss))

\* NAMED_KEYS, the entries explored
NAMED_KEYS ==
  (Str(<<"u", "p">>) :> <<ESC, 91, 65>>) @@
  (Str(<<"e", "n", "t", "e", "r">>) :> <<13>>) @@
  (Str(<<"t", "a", "b">>) :> <<9>>) @@
  (Str(<<"h", "o", "m", "e">>) :> <<ESC, 91, 72>>) @@
  (Str(<<"p", "g", "u", "p">>) :> <<ESC, 91, 53, 126>>) @@
  (Str(<<"f", "1">>) :> <<ESC, 79, 80>>)

\* CTRL_KEYS: ctrl+a .. ctrl+z, and the special combinations
CTRL_KEYS ==
  [k \in {Str(<<"c", "t", "r", "l", "+">>) \o <<c>> : c \in 97..122} |-> k[6] - 96] @@
  [k \in {Str(<<"c", "t", "r", "l", "+">>) \o <<c>> : c \in {91, 92, 93, 94, 95}}
     |-> k[6] - 64] @@
  (Str(<<"c", "t", "r", "l", "+">>) \o <<63>> :> 127)

altKey(char) == <<ESC>> \o char

\* MODIFIABLE_KEYS, the entries explored
MODIFIABLE_KEYS == {Str(<<"u", "p">>), Str(<<"h", "o", "m", "e">>), Str(<<"p", "g", "u", "p">>)}

xtermModifier(shift, alt, ctrl) ==
  1 + (IF shift THEN 1 ELSE 0) + (IF alt THEN 2 ELSE 0) + (IF ctrl THEN 4 ELSE 0)

\* applyXtermModifier: <<>> for null, <<sequence>> otherwise (modifier is 2..8,
\* one digit)
applyXtermModifier(sequence, modifier) ==
  LET n == Len(sequence)
      isCsi == n >= 3 /\ sequence[1] = ESC /\ sequence[2] = 91
  IN IF isCsi /\ n = 3 /\ sequence[3] \in 65..68
     THEN << <<ESC, 91, 49, 59, 48 + modifier, sequence[3]>> >>
     ELSE IF /\ isCsi /\ n >= 4 /\ sequence[n] = 126
             /\ \A i \in 3..(n - 1) : sequence[i] \in 48..57
     THEN << SubSeq(sequence, 1, n - 1) \o <<59, 48 + modifier, 126>> >>
     ELSE IF isCsi /\ n = 3 /\ sequence[3] \in {72, 70}
     THEN << <<ESC, 91, 49, 59, 48 + modifier, sequence[3]>> >>
     ELSE <<>>

BRACKETED_PASTE_START == <<ESC, 91, 50, 48, 48, 126>>
BRACKETED_PASTE_END == <<ESC, 91, 50, 48, 49, 126>>

encodePaste(text) == BRACKETED_PASTE_START \o text \o BRACKETED_PASTE_END

\* the loop of encodeKeyToken that takes the modifier prefixes off
RECURSIVE ParseModifiers(_)
ParseModifiers(st) ==
  LET rest == st.rest
      Has(p) == StartsWith(rest, Str(p))
  IN IF Len(rest) <= 2 THEN st
     ELSE IF Has(<<"c", "t", "r", "l", "+">>) \/ Has(<<"c", "t", "r", "l", "-">>)
     THEN ParseModifiers([st EXCEPT !.ctrl = TRUE, !.rest = Slice(rest, 5)])
     ELSE IF Has(<<"a", "l", "t", "+">>) \/ Has(<<"a", "l", "t", "-">>)
     THEN ParseModifiers([st EXCEPT !.alt = TRUE, !.rest = Slice(rest, 4)])
     ELSE IF Has(<<"s", "h", "i", "f", "t", "+">>) \/ Has(<<"s", "h", "i", "f", "t", "-">>)
     THEN ParseModifiers([st EXCEPT !.shift = TRUE, !.rest = Slice(rest, 6)])
     ELSE IF Has(<<"c", "-">>) THEN ParseModifiers([st EXCEPT !.ctrl = TRUE, !.rest = Slice(rest, 2)])
     ELSE IF Has(<<"m", "-">>) THEN ParseModifiers([st EXCEPT !.alt = TRUE, !.rest = Slice(rest, 2)])
     ELSE IF Has(<<"s", "-">>) THEN ParseModifiers([st EXCEPT !.shift = TRUE, !.rest = Slice(rest, 2)])
     ELSE st

encodeKeyToken(token) ==
  LET normalized == ToLowerCase(Trim(token))
      st == ParseModifiers([rest |-> normalized, ctrl |-> FALSE, alt |-> FALSE, shift |-> FALSE])
      rest == st.rest
      named == rest \in DOMAIN NAMED_KEYS
      modified == IF named /\ rest \in MODIFIABLE_KEYS /\ (st.ctrl \/ st.alt \/ st.shift)
                  THEN applyXtermModifier(NAMED_KEYS[rest], xtermModifier(st.shift, st.alt, st.ctrl))
                  ELSE <<>>
      shifted == IF st.shift THEN ToUpperCase(rest) ELSE rest
      ctrlName == Str(<<"c", "t", "r", "l", "+">>) \o ToLowerCase(shifted)
      char == IF st.ctrl /\ ctrlName \in DOMAIN CTRL_KEYS THEN <<CTRL_KEYS[ctrlName]>> ELSE shifted
  IN IF normalized = <<>> THEN <<>>
     ELSE IF normalized \in DOMAIN NAMED_KEYS THEN NAMED_KEYS[normalized]
     ELSE IF normalized \in DOMAIN CTRL_KEYS THEN <<CTRL_KEYS[normalized]>>
     ELSE IF st.shift /\ rest = Str(<<"t", "a", "b">>) THEN <<ESC, 91, 90>>
     ELSE IF modified # <<>> THEN modified[1]
     ELSE IF Len(rest) = 1 THEN (IF st.alt THEN altKey(char) ELSE char)
     ELSE IF named /\ st.alt THEN <<ESC>> \o NAMED_KEYS[rest]
     ELSE IF named THEN NAMED_KEYS[rest]
     ELSE token

\* one element of input.hex: the byte it stands for, or nothing
decodeHex(raw) ==
  LET trimmed == ToLowerCase(Trim(raw))
      normalized == IF StartsWith(trimmed, Str(<<"0", "x">>)) THEN Slice(trimmed, 2) ELSE trimmed
      IsHexDigit(c) == c \in (48..57) \cup (97..102)
      Digit(c) == IF c \in 48..57 THEN c - 48 ELSE c - 87
  IN IF Len(normalized) \in {1, 2} /\ \A i \in 1..Len(normalized) : IsHexDigit(normalized[i])
     THEN <<IF Len(normalized) = 1 THEN Digit(normalized[1])
            ELSE 16 * Digit(normalized[1]) + Digit(normalized[2])>>
     ELSE <<>>

RawString(s) == [kind |-> "string", value |-> s]
Structured(hex, text, keys, paste) ==
  [kind |-> "structured", hex |-> hex, text |-> text, keys |-> keys, paste |-> paste]

\* translateInput with the text ahead of the hex bytes
translateInputTextFirst(input) ==
  IF input.kind = "string" THEN input.value
  ELSE
    LET r1 == IF input.text # <<>> /\ input.text[1] # <<>> THEN input.text[1] ELSE <<>>
        r2 == IF input.hex # <<>> /\ Len(input.hex[1]) > 0
              THEN r1 \o Concat([i \in 1..Len(input.hex[1]) |-> decodeHex(input.hex[1][i])])
              ELSE r1
        r3 == IF input.keys # <<>>
              THEN r2 \o Concat([i \in 1..Len(input.keys[1]) |-> encodeKeyToken(input.keys[1][i])])
              ELSE r2
    IN IF input.paste # <<>> /\ input.paste[1] # <<>> THEN r3 \o encodePaste(input.paste[1]) ELSE r3

translateInput(input) ==
  IF input.kind = "string" THEN input.value
  ELSE
    LET r1 == IF input.hex # <<>> /\ Len(input.hex[1]) > 0
              THEN Concat([i \in 1..Len(input.hex[1]) |-> decodeHex(input.hex[1][i])])
              ELSE <<>>
        r2 == IF input.text # <<>> /\ input.text[1] # <<>> THEN r1 \o input.text[1] ELSE r1
        r3 == IF input.keys # <<>>
              THEN r2 \o Concat([i \in 1..Len(input.keys[1]) |-> encodeKeyToken(input.keys[1][i])])
              ELSE r2
    IN IF input.paste # <<>> /\ input.paste[1] # <<>> THEN r3 \o encodePaste(input.paste[1]) ELSE r3

\* The inputs explored.
InputStrings == {<<>>, Str(<<"h", "i">>), <<ESC, 91, 65>>, Str(<<"u", "p">>)}
HexLists ==
  {<<>>, <<Str(<<"4", "1">>)>>, <<Str(<<" ", "0", "X", "1", "B", " ">>), Str(<<"z", "z">>)>>,
   <<Str(<<"1", "2", "3">>), Str(<<"7">>), Str(<<"0", "x">>)>>}
KeyLists ==
  {<<>>, <<Str(<<"e", "n", "t", "e", "r">>)>>,
   <<Str(<<"c", "t", "r", "l", "+", "c">>), Str(<<"u", "p">>)>>,
   <<Str(<<"s", "h", "i", "f", "t", "+", "u", "p">>), Str(<<" ", " ">>)>>,
   <<Str(<<"a", "l", "t", "+", "x">>), Str(<<" ", "Z", "z">>)>>,
   <<Str(<<"c", "-", "m", "-", "x">>), Str(<<"s", "-", "a">>)>>,
   <<Str(<<"s", "h", "i", "f", "t", "+", "t", "a", "b">>),
     Str(<<"c", "t", "r", "l", "+", "a", "l", "t", "+", "h", "o", "m", "e">>)>>,
   <<Str(<<"a", "l", "t", "+", "f", "1">>), Str(<<"c", "t", "r", "l", "-", "p", "g", "u", "p">>)>>}
Optional(values) == {<<>>} \cup {<<v>> : v \in values}
StructuredInputs ==
  {Structured(hex, text, keys, paste) :
     hex \in Optional(HexLists), text \in Optional({<<>>, Str(<<"h", "i">>)}),
     keys \in Optional(KeyLists), paste \in Optional({<<>>, Str(<<"p">>)})}

\* The driver sends a raw string.
TranslateString ==
  \E s \in InputStrings :
    Commit([World EXCEPT !.translated =
              <<[input |-> RawString(s), result |-> translateInput(RawString(s))]>>])

\* The driver sends a structured input.
TranslateStructured ==
  \E input \in StructuredInputs :
    Commit([World EXCEPT !.translated = <<[input |-> input, result |-> translateInput(input)]>>])

NextInput ==
  \/ TranslateString
  \/ TranslateStructured

SpecInput == Init /\ [][NextInput]_vars


\* ------------------------------------------------- ShellSessionManager (2)
ClearTimer(w, map, id) ==
  IF id \in DOMAIN map THEN [w EXCEPT !.timers = @ \ {map[id]}] ELSE w

\* get: cancels the cleanup timer of id; the caller reads sessions[id].
get(w, id) ==
  [ClearTimer(w, w.cleanupTimers, id) EXCEPT !.cleanupTimers = MapDelete(@, id)]

remove(w, id) ==
  LET w1 == [ClearTimer(w, w.exitWatchers, id) EXCEPT !.exitWatchers = MapDelete(@, id)]
      w2 == [ClearTimer(w1, w1.cleanupTimers, id) EXCEPT !.cleanupTimers = MapDelete(@, id)]
  IN IF id \in DOMAIN w2.sessions
     THEN releaseSessionId(
            [PtyDispose(w2, w2.sessions[id]) EXCEPT !.sessions = MapDelete(@, id)], id)
     ELSE w2

ClearMinimizedTimers(w, id) ==
  LET w1 == [ClearTimer(w, w.minimizedExitWatchers, id)
               EXCEPT !.minimizedExitWatchers = MapDelete(@, id)]
  IN [ClearTimer(w1, w1.minimizedCleanupTimers, id)
        EXCEPT !.minimizedCleanupTimers = MapDelete(@, id)]

WatchMinimized(w, id, p) ==
  LET h == WatchHandle("minimizedExitWatcher", id, p)
  IN [w EXCEPT !.timers = @ \cup {h}, !.minimizedExitWatchers = MapSet(@, id, h)]

minimize(w, id, p) ==
  LET w1 == ClearMinimizedTimers(w, id)
      w2 == [w1 EXCEPT !.minimizedSessions = MapSet(@, id, p)]
  IN WatchMinimized(w2, id, p)

restore(w, id) ==
  IF id \in DOMAIN w.minimizedSessions
  THEN [ClearMinimizedTimers(w, id) EXCEPT !.minimizedSessions = MapDelete(@, id)]
  ELSE w

removeMinimized(w, id) ==
  LET w1 == ClearMinimizedTimers(w, id)
  IN IF id \in DOMAIN w1.minimizedSessions
     THEN releaseSessionId(
            [PtyDispose(w1, w1.minimizedSessions[id])
               EXCEPT !.minimizedSessions = MapDelete(@, id)], id)
     ELSE w1

transferBackgroundToMinimized(w, id) ==
  IF id \notin DOMAIN w.sessions THEN w
  ELSE
    LET p == w.sessions[id]
        w1 == [ClearTimer(w, w.exitWatchers, id) EXCEPT !.exitWatchers = MapDelete(@, id)]
        w2 == [ClearTimer(w1, w1.cleanupTimers, id) EXCEPT !.cleanupTimers = MapDelete(@, id)]
        w3 == ClearMinimizedTimers(w2, id)
        w4 == [w3 EXCEPT !.sessions = MapDelete(@, id),
                         !.minimizedSessions = MapSet(@, id, p)]
    IN WatchMinimized(w4, id, p)

\* The callback of an exit watcher (setInterval 1000) that finds the session
\* exited: it clears itself, drops the map entry of its id and arms the
\* cleanup timer.
exitWatcherCallback(w, h) ==
  IF ~w.ptys[h.session].exited THEN w
  ELSE
    LET c == WatchHandle(IF h.kind = "exitWatcher" THEN "cleanupTimer"
                         ELSE "minimizedCleanupTimer", h.id, h.session)
        w1 == [w EXCEPT !.timers = (@ \ {h}) \cup {c}]
    IN IF h.kind = "exitWatcher"
       THEN [w1 EXCEPT !.exitWatchers = MapDelete(@, h.id),
                       !.cleanupTimers = MapSet(@, h.id, c)]
       ELSE [w1 EXCEPT !.minimizedExitWatchers = MapDelete(@, h.id),
                       !.minimizedCleanupTimers = MapSet(@, h.id, c)]

\* The callback of a cleanup timer (setTimeout 30000).
cleanupCallback(w, h) ==
  LET w1 == [w EXCEPT !.timers = @ \ {h}]
  IN IF h.kind = "cleanupTimer"
     THEN remove([w1 EXCEPT !.cleanupTimers = MapDelete(@, h.id)], h.id)
     ELSE LET w2 == [w1 EXCEPT !.minimizedCleanupTimers = MapDelete(@, h.id)]
          IN IF h.id \in DOMAIN w2.minimizedSessions THEN removeMinimized(w2, h.id) ELSE w2

RECURSIVE RemoveEach(_, _)
RemoveEach(w, ids) ==
  IF ids = {} THEN w
  ELSE LET id == CHOOSE x \in ids : TRUE IN RemoveEach(remove(w, id), ids \ {id})

RECURSIVE RemoveMinimizedEach(_, _)
RemoveMinimizedEach(w, ids) ==
  IF ids = {} THEN w
  ELSE LET id == CHOOSE x \in ids : TRUE
       IN RemoveMinimizedEach(removeMinimized(w, id), ids \ {id})

RECURSIVE KillEach(_, _, _)
KillEach(w, entries, ids) ==
  IF ids = {} THEN w
  ELSE LET id == CHOOSE x \in ids : TRUE
       IN KillEach(killHandle(w, entries[id]), entries, ids \ {id})

killAll(w) ==
  LET w1 == RemoveEach(w, DOMAIN w.sessions)
      w2 == RemoveMinimizedEach(w1, DOMAIN w1.minimizedSessions)
  IN KillEach(w2, w2.activeSessions, DOMAIN w2.activeSessions)

\* ------------------------------------------------------- ReattachOverlay
\* done(result) of the /attach handler's overlay: its finally clears overlayOpen
reattachDone(w) ==
  [w EXCEPT !.reattach.doneCalls = @ + 1,
            !.overlayOpen = IF w.reattach.doneCalls = 0 THEN FALSE ELSE @]

reattachStopCountdown(w) == [w EXCEPT !.reattach.countdownInterval = FALSE]
reattachStartExitCountdown(w) ==
  [reattachStopCountdown(w) EXCEPT !.reattach.countdownInterval = TRUE]

reattachConstruct(w, id, p, config) ==
  LET w1 == SetEventHandlers(w, p, "reattach")
      r == [NoReattach EXCEPT !.mounted = TRUE, !.id = id, !.session = p, !.config = config]
  IN IF w1.ptys[p].exited
     THEN [w1 EXCEPT !.reattach =
             [r EXCEPT !.state = "exited", !.exitCountdown = config.exitAutoCloseDelay,
                       !.initialExitTimeout = TRUE]]
     ELSE [w1 EXCEPT !.reattach = r]

reattachOnExit(w) ==
  IF w.reattach.finished THEN w
  ELSE reattachStartExitCountdown(
         [w EXCEPT !.reattach.state = "exited",
                   !.reattach.exitCountdown = w.reattach.config.exitAutoCloseDelay])

finishAndClose(w) ==
  IF w.reattach.finished THEN w
  ELSE LET w1 == reattachStopCountdown([w EXCEPT !.reattach.finished = TRUE])
       IN reattachDone(remove(w1, w1.reattach.id))

reattachFinishWithBackground(w) ==
  IF w.reattach.finished THEN w
  ELSE LET w1 == reattachStopCountdown([w EXCEPT !.reattach.finished = TRUE])
       IN reattachDone(SetEventHandlers(w1, w1.reattach.session, "none"))

\* the callback of the ReattachOverlay's countdownInterval
reattachCountdownCallback(w) ==
  LET w1 == [w EXCEPT !.reattach.exitCountdown = @ - 1]
  IN IF w1.reattach.exitCountdown <= 0 THEN finishAndClose(w1) ELSE w1

finishWithMinimize(w) ==
  IF w.reattach.finished THEN w
  ELSE LET w1 == reattachStopCountdown([w EXCEPT !.reattach.finished = TRUE])
           w2 == SetEventHandlers(w1, w1.reattach.session, "none")
           w3 == remove(w2, w2.reattach.id)
       IN reattachDone(minimize(w3, w3.reattach.id, w3.reattach.session))

reattachFinishWithKill(w) ==
  IF w.reattach.finished THEN w
  ELSE LET w1 == reattachStopCountdown([w EXCEPT !.reattach.finished = TRUE])
       IN reattachDone(remove(w1, w1.reattach.id))

ReattachDialogChoices == <<"kill", "background", "minimize", "cancel">>

reattachHandleDialogInput(w, data) ==
  IF data = "escape" THEN [w EXCEPT !.reattach.state = "running"]
  ELSE IF data \in {"up", "down"}
  THEN LET currentIdx == IndexOf(ReattachDialogChoices, w.reattach.dialogSelection) - 1
           direction == IF data = "up" THEN -1 ELSE 1
           n == Len(ReattachDialogChoices)
           newIdx == (currentIdx + direction + n) % n
       IN [w EXCEPT !.reattach.dialogSelection = ReattachDialogChoices[newIdx + 1]]
  ELSE IF data = "enter"
  THEN CASE w.reattach.dialogSelection = "kill" -> reattachFinishWithKill(w)
         [] w.reattach.dialogSelection = "background" -> reattachFinishWithBackground(w)
         [] w.reattach.dialogSelection = "minimize" -> finishWithMinimize(w)
         [] OTHER -> [w EXCEPT !.reattach.state = "running"]
  ELSE w

reattachHandleInput(w, data) ==
  IF w.reattach.state = "detach-dialog" THEN reattachHandleDialogInput(w, data)
  ELSE IF w.reattach.state = "exited" THEN finishAndClose(w)
  ELSE IF w.ptys[w.reattach.session].exited /\ w.reattach.state = "running"
  THEN reattachStartExitCountdown(
         [w EXCEPT !.reattach.state = "exited",
                   !.reattach.exitCountdown = w.reattach.config.exitAutoCloseDelay])
  ELSE IF data = "ctrl+q"
  THEN [w EXCEPT !.reattach.state = "detach-dialog",
                 !.reattach.dialogSelection = "background"]
  ELSE IF data = "ctrl+z" THEN finishWithMinimize(w)
  ELSE IF data \in {"shift+up", "shift+down"} THEN w
  ELSE PtyWrite(w, w.reattach.session, data)

\* dispose that does not clear initialExitTimeout
reattachDisposeKeepsTimeout(w) ==
  SetEventHandlers(reattachStopCountdown(w), w.reattach.session, "none")

reattachDispose(w) ==
  SetEventHandlers(
    reattachStopCountdown([w EXCEPT !.reattach.initialExitTimeout = FALSE]),
    w.reattach.session, "none")

\* ------------------------------------------------- the /attach command
\* The handler from sessionManager.get on: the ReattachOverlay is opened on
\* the session found, with no second look at overlayOpen.
attach_open(w, targetId, config) ==
  LET w1 == get(w, targetId)
  IN IF targetId \notin DOMAIN w1.sessions THEN w1
     ELSE reattachConstruct([w1 EXCEPT !.overlayOpen = TRUE],
                            targetId, w1.sessions[targetId], config)

\* The handler up to its first suspension: with args it runs to the overlay,
\* without it stops in ctx.ui.select.
attach_handler(w, args, config) ==
  IF w.overlayOpen THEN w
  ELSE IF DOMAIN w.sessions = {} THEN w
  ELSE IF args = None
       THEN [w EXCEPT !.attach = [pc |-> "select", listed |-> DOMAIN w.sessions]]
       ELSE attach_open(w, args, config)

\* ctx.ui.select resolves with choice (None: dismissed).
attach_resume(w, choice, config) ==
  LET w1 == [w EXCEPT !.attach = [pc |-> "idle", listed |-> {}]]
  IN IF choice = None THEN w1 ELSE attach_open(w1, choice, config)

\* --------------------------------------------- actions of the registry view
ShellOpen == overlay.inst > 0 /\ ~overlay.finished
ReattachOpen == reattach.mounted /\ ~reattach.finished

\* Options of the sessions the registry view starts: a named hands-free
\* session (non-blocking, no update consumer) or an unnamed interactive one.
RegistryOptions ==
  {o \in Options({"interactive", "hands-free"}, {FALSE}, {"on-quiet"},
                 {FALSE}, Names \cup {NoName}, {MaxBudget}, {MaxBudget}) :
     (o.mode = "hands-free") = (o.name # NoName)}

\* One shell overlay is followed at a time: a start while the one followed is
\* still open is left out.
RegStart ==
  /\ ~ShellOpen
  /\ Start(MaxStarts, RegistryOptions)

AttachCommand ==
  /\ attach.pc = "idle"
  /\ ~reattach.mounted
  /\ \E args \in {None} \cup DOMAIN sessions, config \in Configs :
       Commit(attach_handler(World, args, config))

AttachSelect ==
  /\ attach.pc = "select"
  /\ ~reattach.mounted
  /\ \E choice \in {None} \cup attach.listed, config \in Configs :
       Commit(attach_resume(World, choice, config))

ReattachKeys == {"a", "ctrl+q", "ctrl+z", "down", "enter"}

ReattachInput ==
  /\ ReattachOpen
  /\ \E data \in ReattachKeys :
       LET w1 == reattachHandleInput(World, data)
       IN /\ Len(w1.ptys[reattach.session].written) <= MaxWrites
          /\ Commit(w1)

ReattachInitialExitTimeoutFires ==
  /\ reattach.initialExitTimeout
  /\ Commit(reattachStartExitCountdown([World EXCEPT !.reattach.initialExitTimeout = FALSE]))

\* (ticks of an interval left armed on a closed overlay only count down)
ReattachCountdownTick ==
  /\ reattach.countdownInterval
  /\ ~reattach.finished
  /\ Commit(reattachCountdownCallback(World))

\* The TUI drops the closed ReattachOverlay.
ReattachDispose ==
  /\ reattach.mounted
  /\ reattach.finished
  /\ Commit([reattachDispose(World) EXCEPT !.reattach = NoReattach])

\* The child of a session ends; the handlers installed on it run.
RegChildExit ==
  \E p \in 1..Len(ptys), code \in {"0"} :
    /\ ~ptys[p].exited
    /\ LET w1 == [World EXCEPT !.ptys[p].exited = TRUE, !.ptys[p].exitCode = code,
                               !.ptys[p].rawOutput = Append(@, StatusLine)]
       IN Commit(IF ShellHandles(w1, p) THEN onExit(w1)
                 ELSE IF w1.ptys[p].handlers = "reattach" /\ w1.reattach.mounted
                           /\ w1.reattach.session = p
                      THEN reattachOnExit(w1)
                      ELSE w1)

ExitWatcherTick ==
  \E h \in timers :
    /\ h.kind \in {"exitWatcher", "minimizedExitWatcher"}
    /\ ptys[h.session].exited
    /\ Commit(exitWatcherCallback(World, h))

CleanupTimerFires ==
  \E h \in timers :
    /\ h.kind \in {"cleanupTimer", "minimizedCleanupTimer"}
    /\ Commit(cleanupCallback(World, h))

DriverKill ==
  \E id \in DOMAIN activeSessions : Commit(execute_kill(World, id))

\* session_shutdown
KillAll ==
  /\ (DOMAIN sessions) \cup (DOMAIN minimizedSessions) \cup (DOMAIN activeSessions) # {}
  /\ Commit(killAll(World))

\* The host hides a background session.
TransferToMinimized ==
  \E id \in DOMAIN sessions : Commit(transferBackgroundToMinimized(World, id))

\* The host brings a minimized session back to the background:
\* restore(id), then addWithId(id, ...) on the session returned.
restoreToBackground(w, id) ==
  IF id \notin DOMAIN w.minimizedSessions THEN w
  ELSE addWithId(restore(w, id), id, w.minimizedSessions[id])

RestoreMinimized ==
  \E id \in DOMAIN minimizedSessions : Commit(restoreToBackground(World, id))

RegKeys == {"a", "escape", "down", "enter"}

RegUserInput ==
  /\ overlay.mounted
  /\ ~overlay.finished
  /\ \E data \in RegKeys :
       \E bgId \in generateSessionId(overlay.options.name, usedIds) :
         LET w1 == handleInput(World, data, bgId)
         IN /\ Len(w1.ptys[overlay.session].written) <= MaxWrites
            /\ Commit(w1)

NextReg ==
  \/ RegStart
  \/ RegChildExit
  \/ CountdownTick
  \/ RegUserInput
  \/ DriverKill
  \/ KillAll
  \/ AttachCommand
  \/ AttachSelect
  \/ ReattachInput
  \/ ReattachInitialExitTimeoutFires
  \/ ReattachCountdownTick
  \/ ReattachDispose
  \/ ExitWatcherTick
  \/ CleanupTimerFires
  \/ TransferToMinimized
  \/ RestoreMinimized

SpecReg == Init /\ [][NextReg]_vars

\* -------------------------------------------- actions of the driver's view
\* A non-blocking hands-free session, as the tool starts it.
ApiOptions ==
  Options({"hands-free"}, {FALSE}, {"on-quiet"}, BOOLEAN, {"a"}, {MaxBudget}, {MaxBudget})

ApiIds == {<<"a", 1>>}

RequestParams ==
  [command : {FALSE}, sessionId : ApiIds, kill : BOOLEAN,
   settings : {NoSetting, 1000}, input : {NoInput, "driver"}]

\* A call of the tool with a command: one session is started; the calls that
\* arrive while overlayOpen is set are refused.
ApiStart ==
  /\ starts < 1 \/ overlayOpen
  /\ \E options \in ApiOptions, config \in Configs :
       \E id \in generateSessionId(options.name, usedIds) :
         Commit(execute_start(World, options, config, id))

\* A call of the tool with a sessionId. One status query is suspended at a time.
ApiRequest ==
  \E params \in RequestParams :
    LET w1 == execute(World, params)
    IN /\ query.pc = "idle" \/ w1.query = query
       /\ \A p \in 1..Len(ptys) : Len(w1.ptys[p].written) <= MaxWrites
       /\ Commit(w1)

\* The timer of the rate-limit wait fires: minQueryIntervalSeconds have passed
\* since the read before the one that was refused.
QueryWaitElapses ==
  /\ query.pc = "waiting"
  /\ Commit(query_freshOutput([World EXCEPT !.overlay.lastQueryRecent = FALSE]))

\* minQueryIntervalSeconds pass after a read with no call waiting.
QueryIntervalElapses ==
  /\ overlay.lastQueryRecent
  /\ query.pc = "idle"
  /\ Commit([World EXCEPT !.overlay.lastQueryRecent = FALSE])

NextApi ==
  \/ ApiStart
  \/ ApiRequest
  \/ QueryWaitElapses
  \/ QueryIntervalElapses
  \/ ChildData(1)
  \/ ChildExit
  \/ InitialTimeoutFires
  \/ IntervalTick
  \/ QuietTimerFires
  \/ CountdownTick
  \/ TimeoutFires
  \/ RegUserInput
  \/ Dispose

SpecApi == Init /\ [][NextApi]_vars

\* ------------------------------------------------------------------ claims
\* C1: for one controller, `finished` goes from false to true at most once
\* and never back, exactly one terminal path takes effect (a finished
\* controller has delivered exactly one result) and done is called at most
\* once, whatever the order of child exit, countdown ticks, key presses,
\* dialog selections and timeout.
C1_FinishedOnce ==
  /\ [](Len(doneCalls) <= 1)
  /\ [](overlay.finished <=> Len(doneCalls) = 1)
  /\ [][overlay.finished /\ overlay'.inst = overlay.inst => overlay'.finished]_vars

\* C1 witness: the timeout fired and the child's exit arrived afterwards.
C1_Witness ==
  /\ overlay.inst > 0
  /\ overlay.timedOut
  /\ ptys[overlay.session].exited
  /\ Len(doneCalls) = 1

\* -- what the driver has received
HasUpdate(status) == \E i \in 1..Len(updates) : updates[i].status = status
CountUpdates(status) == Cardinality({i \in 1..Len(updates) : updates[i].status = status})
TakeoverCount == CountUpdates("user-takeover")
RECURSIVE TailChars(_)
TailChars(us) == IF Len(us) = 0 THEN 0 ELSE JoinLen(us[1].tail) + TailChars(Tail(us))
HandsFreeWithConsumer ==
  /\ overlay.inst > 0
  /\ overlay.options.mode = "hands-free"
  /\ overlay.options.onHandsFreeUpdate

\* C2 (as stated): a hands-free controller with an update consumer that has
\* finished has delivered an update with status `exited` to the driver.
C2_FinishedDeliversExited ==
  (HandsFreeWithConsumer /\ overlay.finished) => HasUpdate("exited")

\* C5: a step in which the driver's data is written to the child through
\* writeToActive leaves the controller's state, userTookOver, the active map
\* and the updates as they were: it is never treated as user input.
C5_DriverInputIsNotTakeover ==
  [][(/\ overlay.inst > 0
      /\ overlay'.inst = overlay.inst
      /\ ptys'[overlay.session].written = Append(ptys[overlay.session].written, "driver"))
     => /\ overlay'.state = overlay.state
        /\ overlay'.userTookOver = overlay.userTookOver
        /\ activeSessions' = activeSessions
        /\ updates' = updates]_vars

\* C5 witness: the driver wrote to a session that is still hands-free and
\* registered.
C5_Witness ==
  /\ overlay.inst > 0
  /\ overlay.state = "hands-free"
  /\ ~overlay.userTookOver
  /\ overlay.sessionId \in DOMAIN activeSessions
  /\ \E i \in 1..Len(ptys[overlay.session].written) :
       ptys[overlay.session].written[i] = "driver"

C7_TotalBudget ==
  HandsFreeWithConsumer =>
    /\ TailChars(updates) <= overlay.options.handsFreeMaxTotalChars
    /\ overlay.totalCharsSent = TailChars(updates)

\* C7 witness: the budget is used up to the last character by an update that
\* had to be cut.
C7_Witness ==
  /\ HandsFreeWithConsumer
  /\ TailChars(updates) = overlay.options.handsFreeMaxTotalChars
  /\ \E i \in 1..Len(updates) : updates[i].tailTruncated /\ Len(updates[i].tail) > 0

C9_ExitedIsLast ==
  HandsFreeWithConsumer =>
    \A i \in 1..Len(updates) : updates[i].status = "exited" => i = Len(updates)

\* -- the registry's maps
LiveIds == (DOMAIN activeSessions) \cup (DOMAIN sessions) \cup (DOMAIN minimizedSessions)

\* C3 (as stated): an id that keys an entry of the active, background or
\* minimized map is marked used, and a used id keys such an entry or is the
\* id of the controller that is still open (a takeover keeps the id): once
\* the session has fully terminated its id is back in the pool.
C3_FreeIffNoLiveEntry ==
  \A id \in usedIds \cup LiveIds :
    /\ id \in LiveIds => id \in usedIds
    /\ id \in usedIds => (id \in LiveIds \/ (ShellOpen /\ overlay.sessionId = id))

\* C4 (as stated): no id keys entries in two of the three maps, and
\* generateSessionId returns no id that keys an entry of any of them.
C4_OneLiveSessionPerId ==
  /\ (DOMAIN activeSessions) \cap (DOMAIN sessions) = {}
  /\ (DOMAIN activeSessions) \cap (DOMAIN minimizedSessions) = {}
  /\ (DOMAIN sessions) \cap (DOMAIN minimizedSessions) = {}
  /\ \A name \in Names \cup {NoName} : generateSessionId(name, usedIds) \cap LiveIds = {}

\* C10 (as stated): an InteractiveShellOverlay and a ReattachOverlay are never
\* open at the same time.
C10_OneOverlayOpen == ~(ShellOpen /\ ReattachOpen)

\* C11: a start request that arrives while an overlay is open (the shell
\* overlay or the reattach overlay) is answered with the error
\* overlay_already_open and changes nothing else: no id is generated or
\* reserved, no map gets an entry, no session is created, and the open overlay
\* and overlayOpen stay as they were.
C11_StartRefusedWhileOpen ==
  (ShellOpen \/ ReattachOpen) =>
    \A options \in RegistryOptions, config \in Configs :
      \A id \in generateSessionId(options.name, usedIds) :
        execute_start(World, options, config, id) =
          Answer(World, [NoParams EXCEPT !.command = TRUE],
                 [NoDetails EXCEPT !.isError = TRUE, !.error = "overlay_already_open"])

\* C12: a status query that is rate-limited waits no longer than the session
\* runs (no call is left waiting once the session has completed), and a call
\* that is resumed by the session's completion is answered with the session's
\* final status and the result done was called with.
C12_CompletionAnswersWaitingQuery ==
  /\ query.pc = "waiting" => Len(doneCalls) = 0
  /\ lastCall.resumed = "completion" =>
       /\ lastCall.details.status \in {"exited", "killed", "backgrounded"}
       /\ Len(doneCalls) > 0
       /\ lastCall.details.result = <<doneCalls[1]>>

C14_KillTakesPrecedence ==
  \A params \in RequestParams :
    (params.kill /\ getActive(World, params.sessionId)) =>
      LET w == execute(World, params)
          id == params.sessionId
      IN /\ w.lastCall.details.status = "killed"
         /\ ~w.lastCall.details.isError
         /\ w.lastCall.details.actions = {}
         /\ w.overlay.finished
         /\ w.doneCalls = <<Result(w.overlay, "kill", "null", None)>>
         /\ w.ptys[overlay.session].killed
         /\ id \notin DOMAIN w.activeSessions
         /\ id \notin w.usedIds
         /\ w.overlay.currentUpdateInterval = overlay.currentUpdateInterval
         /\ w.ptys[overlay.session].written = ptys[overlay.session].written

\* C14 witness: a call with kill, a new update interval and input was
\* answered `killed`; the child got no input and the interval is the
\* configured one.
C14_Witness ==
  /\ lastCall.params.kill
  /\ lastCall.params.settings # NoSetting
  /\ lastCall.params.input # NoInput
  /\ lastCall.details.status = "killed"
  /\ ptys[overlay.session].killed
  /\ ptys[overlay.session].written = <<>>
  /\ overlay.currentUpdateInterval = overlay.config.handsFreeUpdateInterval
  /\ usedIds = {}

\* C15: a request whose sessionId is not in the active map is answered with
\* isError and the error session_not_found and changes nothing else, whatever
\* kill, settings and input it carries: no interval is set, nothing is written
\* to a child, no controller is killed and no id leaves the pool.
C15_MissingSessionIsNotFound ==
  \A params \in RequestParams :
    ~getActive(World, params.sessionId) =>
      execute(World, params) =
        Answer(World, params,
               [NoDetails EXCEPT !.isError = TRUE, !.error = "session_not_found"])

\* C15 witness: after the user took the session over (it is unregistered and
\* still running, its id still used) a call with kill, settings and input was
\* answered session_not_found, and the session runs on untouched.
C15_Witness ==
  /\ lastCall.details.error = "session_not_found"
  /\ lastCall.details.isError
  /\ lastCall.params.kill
  /\ lastCall.params.settings # NoSetting
  /\ lastCall.params.input # NoInput
  /\ overlay.inst > 0
  /\ overlay.userTookOver
  /\ ~overlay.finished
  /\ ~ptys[overlay.session].killed
  /\ \A i \in 1..Len(ptys[overlay.session].written) :
       ptys[overlay.session].written[i] # lastCall.params.input
  /\ lastCall.params.sessionId \in usedIds
  /\ overlay.currentUpdateInterval = overlay.config.handsFreeUpdateInterval

\* C16: when the timeout timer of a controller that has not finished fires, in
\* whatever state the controller is, the controller finishes with every timer
\* stopped, the session off the active map and the child killed and disposed,
\* as finishWithKill would leave them, and done is called once, with a result
\* that has timedOut = true.
C16_TimeoutActsAsKill ==
  (overlay.inst > 0 /\ overlay.timeoutTimer /\ ~overlay.finished) =>
    LET w == finishWithTimeout(World)
        k == finishWithKill(World)
        o == w.overlay
        p == overlay.session
    IN /\ o.finished /\ o.timedOut
       /\ ~o.countdownInterval /\ ~o.timeoutTimer /\ ~o.quietTimer
       /\ ~o.handsFreeInterval /\ ~o.handsFreeInitialTimeout
       /\ overlay.sessionId # None => overlay.sessionId \notin DOMAIN w.activeSessions
       /\ w.ptys[p].killed /\ w.ptys[p].disposed
       /\ w.doneCalls = <<Result(o, "timeout", "null", None)>>
       /\ w.doneCalls[1].timedOut /\ ~w.doneCalls[1].cancelled
       /\ w.activeSessions = k.activeSessions /\ w.usedIds = k.usedIds
       /\ w.overlayOpen = k.overlayOpen /\ w.sessions = k.sessions
       /\ [o EXCEPT !.timedOut = FALSE, !.hasUnsentData = FALSE,
                    !.totalCharsSent = 0, !.budgetExhausted = FALSE]
            = [k.overlay EXCEPT !.hasUnsentData = FALSE, !.totalCharsSent = 0,
                                !.budgetExhausted = FALSE]
       /\ [w.ptys[p] EXCEPT !.lastStreamPosition = 0]
            = [k.ptys[p] EXCEPT !.lastStreamPosition = 0]

\* C16 witness: the timeout has fired while the detach dialog was open after
\* a takeover; the controller is finished, its child killed and disposed, and
\* the one result has timedOut = true.
C16_Witness ==
  /\ overlay.inst > 0
  /\ overlay.state = "detach-dialog"
  /\ overlay.userTookOver
  /\ overlay.finished /\ overlay.timedOut
  /\ ~overlay.timeoutTimer /\ ~overlay.countdownInterval /\ ~overlay.quietTimer
  /\ ~overlay.handsFreeInterval /\ ~overlay.handsFreeInitialTimeout
  /\ ptys[overlay.session].killed /\ ptys[overlay.session].disposed
  /\ overlay.sessionId \notin DOMAIN activeSessions
  /\ Len(doneCalls) = 1 /\ doneCalls[1].timedOut

\* C17: the exit watcher of a background session that polls an exited session
\* is cancelled by that poll and leaves exactly one cleanup timer of the
\* background map armed for its id, the session still in the map and
\* undisposed; a cleanup timer that fires disposes the session it was armed
\* for, deletes the id from the background map and releases the id; after
\* get(id) or transferBackgroundToMinimized(id) no cleanup timer of the
\* background map is armed for the id and the session is not disposed.
C17_WatcherThenOneCleanup ==
  LET CleanupTimersOf(w, id) ==
        {c \in w.timers : c.kind = "cleanupTimer" /\ c.id = id}
  IN
  /\ \A h \in timers :
       (h.kind = "exitWatcher" /\ ptys[h.session].exited) =>
         LET w == exitWatcherCallback(World, h)
         IN /\ h \notin w.timers
            /\ h.id \in DOMAIN w.cleanupTimers
            /\ CleanupTimersOf(w, h.id) = {w.cleanupTimers[h.id]}
            /\ w.sessions = sessions /\ w.ptys = ptys /\ w.usedIds = usedIds
  /\ \A h \in timers :
       h.kind = "cleanupTimer" =>
         LET w == cleanupCallback(World, h)
         IN /\ w.ptys[h.session].disposed
            /\ h.id \notin DOMAIN w.sessions
            /\ h.id \notin w.usedIds
            /\ CleanupTimersOf(w, h.id) = {}
  /\ \A id \in DOMAIN sessions :
       /\ LET w == get(World, id)
          IN /\ CleanupTimersOf(w, id) = {}
             /\ w.sessions = sessions /\ w.ptys = ptys /\ w.usedIds = usedIds
       /\ LET w == transferBackgroundToMinimized(World, id)
          IN /\ CleanupTimersOf(w, id) = {}
             /\ w.ptys = ptys /\ w.usedIds = usedIds
             /\ id \notin DOMAIN w.sessions

\* C18: while a ReattachOverlay is open on a background session, no cleanup
\* timer that fires disposes that session or deletes it from the background
\* map: the session lasts until the overlay has finished, also when its child
\* has exited while the overlay was open.
C18_NoCleanupWhileAttached ==
  ReattachOpen =>
    \A h \in timers :
      h.kind \in {"cleanupTimer", "minimizedCleanupTimer"} =>
        LET w == cleanupCallback(World, h)
        IN /\ w.ptys[reattach.session].disposed = ptys[reattach.session].disposed
           /\ reattach.id \in DOMAIN sessions => reattach.id \in DOMAIN w.sessions

\* C19: each move of a session between the background map and the minimized
\* map (transferBackgroundToMinimized, Minimize in the ReattachOverlay,
\* restore followed by addWithId) leaves the PtySession undisposed, leaves the
\* set of used ids as it was, and ends with the session in the map moved to
\* and no entry of its id in the map moved from.
C19_MovePreservesSession ==
  /\ \A id \in DOMAIN sessions :
       LET w == transferBackgroundToMinimized(World, id)
           p == sessions[id]
       IN /\ w.ptys[p].disposed = ptys[p].disposed
          /\ w.usedIds = usedIds
          /\ id \notin DOMAIN w.sessions
          /\ id \in DOMAIN w.minimizedSessions /\ w.minimizedSessions[id] = p
  /\ (/\ ReattachOpen /\ reattach.state = "running"
      /\ ~ptys[reattach.session].exited
      /\ reattach.id \in DOMAIN sessions
      /\ sessions[reattach.id] = reattach.session) =>
       LET w == reattachHandleInput(World, "ctrl+z")
           p == reattach.session
       IN /\ w.reattach.finished
          /\ w.ptys[p].disposed = ptys[p].disposed
          /\ w.usedIds = usedIds
          /\ reattach.id \notin DOMAIN w.sessions
          /\ reattach.id \in DOMAIN w.minimizedSessions
          /\ w.minimizedSessions[reattach.id] = p
  /\ \A id \in DOMAIN minimizedSessions :
       LET w == restoreToBackground(World, id)
           p == minimizedSessions[id]
       IN /\ w.ptys[p].disposed = ptys[p].disposed
          /\ w.usedIds = usedIds
          /\ id \notin DOMAIN w.minimizedSessions
          /\ id \in DOMAIN w.sessions /\ w.sessions[id] = p

\* C20: unregisterActive(id, false) leaves usedIds as it is, and with
\* releaseId = true it releases the id; remove and removeMinimized release an
\* id only with the disposal of the background or minimized session stored
\* under it; and from a user takeover until the session of the controller has
\* ended, the controller's id is marked used and generateSessionId returns it
\* for no name.
C20_IdStaysUsedAfterTakeover ==
  /\ \A id \in usedIds :
       /\ unregisterActive(World, id, FALSE).usedIds = usedIds
       /\ unregisterActive(World, id, TRUE).usedIds = usedIds \ {id}
       /\ LET w == remove(World, id)
          IN id \notin w.usedIds =>
               (id \in DOMAIN sessions /\ w.ptys[sessions[id]].disposed)
       /\ LET w == removeMinimized(World, id)
          IN id \notin w.usedIds =>
               (id \in DOMAIN minimizedSessions
                  /\ w.ptys[minimizedSessions[id]].disposed)
  /\ (/\ overlay.inst > 0
      /\ overlay.userTookOver
      /\ overlay.sessionId # None
      /\ ~ptys[overlay.session].exited
      /\ ~ptys[overlay.session].disposed) =>
       /\ overlay.sessionId \in usedIds
       /\ \A name \in Names \cup {NoName} :
            overlay.sessionId \notin generateSessionId(name, usedIds)

\* C21: Enter on the Background choice of the detach dialog finishes the
\* controller: done is called once, with backgrounded = true, cancelled =
\* false and the id that add has generated; the background map lists the
\* controller's PtySession under that id, with an exit watcher; the session
\* is neither killed nor disposed; and no id is released: the ids marked used
\* are those of before and the new one.
C21_BackgroundKeepsSession ==
  (/\ ShellOpen
   /\ overlay.state = "detach-dialog"
   /\ overlay.dialogSelection = "background") =>
    \A bgId \in generateSessionId(overlay.options.name, usedIds) :
      LET w == handleInput(World, "enter", bgId)
          p == overlay.session
      IN /\ w.overlay.finished
         /\ w.doneCalls = <<Result(w.overlay, "background", "null", bgId)>>
         /\ w.doneCalls[1].backgrounded /\ ~w.doneCalls[1].cancelled
         /\ w.doneCalls[1].backgroundId = bgId
         /\ bgId \in DOMAIN w.sessions /\ w.sessions[bgId] = p
         /\ bgId \in DOMAIN w.exitWatchers
         /\ ~w.ptys[p].disposed /\ ~w.ptys[p].killed
         /\ w.usedIds = usedIds \cup {bgId}

\* C21 witness: a hands-free session that the user took over has been sent to
\* the background from the detach dialog; it is listed under the id of the
\* result, undisposed, and both ids are marked used.
C21_Witness ==
  /\ overlay.inst > 0 /\ overlay.finished
  /\ overlay.userTookOver
  /\ Len(doneCalls) = 1
  /\ doneCalls[1].backgrounded /\ ~doneCalls[1].cancelled
  /\ doneCalls[1].backgroundId \in DOMAIN sessions
  /\ sessions[doneCalls[1].backgroundId] = overlay.session
  /\ ~ptys[overlay.session].disposed
  /\ {overlay.sessionId, doneCalls[1].backgroundId} \subseteq usedIds
  /\ overlay.sessionId # doneCalls[1].backgroundId

\* C22: killAll leaves the background map and the minimized map empty, with
\* every session they held disposed, no exit watcher or cleanup timer left in
\* the registry's maps or armed for such a session, and the ids of the
\* entries released; every controller that was in the active map has been
\* killed (its child killed, the controller finished), whatever the
\* controller's own unregistration does to the map meanwhile.
C22_KillAllClearsRegistry ==
  LET w == killAll(World)
      held == {sessions[id] : id \in DOMAIN sessions}
                \cup {minimizedSessions[id] : id \in DOMAIN minimizedSessions}
  IN /\ w.sessions = EmptyMap /\ w.minimizedSessions = EmptyMap
     /\ \A p \in held : w.ptys[p].disposed
     /\ w.exitWatchers = EmptyMap /\ w.cleanupTimers = EmptyMap
     /\ w.minimizedExitWatchers = EmptyMap /\ w.minimizedCleanupTimers = EmptyMap
     /\ \A h \in w.timers : h.session \notin held
     /\ \A id \in (DOMAIN sessions) \cup (DOMAIN minimizedSessions) : id \notin w.usedIds
     /\ \A id \in DOMAIN activeSessions :
          /\ activeSessions[id] = overlay.inst
          /\ w.overlay.finished
          /\ w.ptys[overlay.session].killed
          /\ Len(w.doneCalls) = 1 /\ w.doneCalls[1].cancelled

C24_ExitLeadsToDone ==
  LET FinishedWithExitCode(w) ==
        /\ w.overlay.finished
        /\ Len(w.doneCalls) = 1
        /\ w.doneCalls[1].kind = "exit"
        /\ w.doneCalls[1].exitCode = w.ptys[w.overlay.session].exitCode
        /\ w.doneCalls[1].exitCode \in {"0", "1"}
  IN
  /\ []((/\ ShellOpen
         /\ overlay.state \in {"running", "hands-free"}
         /\ ~ptys[overlay.session].exited) =>
          \A code \in {"0", "1"} :
            LET p == overlay.session
                w == onExit([World EXCEPT !.ptys[p].exited = TRUE,
                                          !.ptys[p].exitCode = code,
                                          !.ptys[p].rawOutput = Append(@, StatusLine)])
            IN /\ w.overlay.state = "exited"
               /\ w.overlay.exitCountdown = overlay.config.exitAutoCloseDelay
               /\ w.overlay.countdownInterval
               /\ ~w.overlay.finished)
  /\ []((ShellOpen /\ overlay.state = "exited") =>
          /\ overlay.countdownInterval
          /\ ptys[overlay.session].exited
          /\ \A data \in Keys : FinishedWithExitCode(handleInput(World, data, None)))
  /\ (ShellOpen /\ overlay.state = "exited") ~> FinishedWithExitCode(World)

\* C24 witness: the child of a hands-free session has exited with code 1, the
\* countdown has run down to zero and the controller has finished with that
\* exit code.
C24_Witness ==
  /\ overlay.inst > 0 /\ overlay.finished
  /\ overlay.state = "exited"
  /\ overlay.sessionId # None /\ ~overlay.userTookOver
  /\ overlay.exitCountdown = 0
  /\ ~overlay.countdownInterval
  /\ Len(doneCalls) = 1
  /\ doneCalls[1].kind = "exit" /\ doneCalls[1].exitCode = "1"
  /\ ptys[overlay.session].exitCode = "1"

\* The child prints the characters of s one after the other (ChildData for
\* each of them).
RECURSIVE ChildPrints(_, _)
ChildPrints(w, s) ==
  IF s = <<>> THEN w
  ELSE ChildPrints(onData([w EXCEPT !.ptys[w.overlay.session].rawOutput = Append(@, s[1])]),
                   Tail(s))

\* Some characters the child appends between two emissions.
Appended == UNION {[1..k -> Chars] : k \in 1..(MaxBudget + 1)}

\* One timer callback of the controller.
TimerCallback(w, timer) ==
  CASE timer = "quiet" -> IF w.overlay.quietTimer THEN quietCallback(w) ELSE w
    [] timer = "interval" -> IF w.overlay.handsFreeInterval THEN handsFreeIntervalFires(w) ELSE w
    [] timer = "initial" -> IF w.overlay.handsFreeInitialTimeout THEN initialTimeoutCallback(w) ELSE w

\* A pair of successive emissions in on-quiet mode: a timer callback emits
\* (E1), the child appends `a`, a timer callback emits again (E2).  Carried(w1,
\* a) is what E2 has to carry.
SuccessiveEmissions(Carried(_, _)) ==
  (/\ ShellOpen /\ overlay.state = "hands-free" /\ overlay.updateMode = "on-quiet"
   /\ ~ptys[overlay.session].exited) =>
    \A t1 \in {"quiet", "interval", "initial"}, t2 \in {"quiet", "interval"}, a \in Appended :
      LET w1 == TimerCallback(World, t1)
          w2 == ChildPrints(w1, a)
          w3 == TimerCallback(w2, t2)
          e2 == w3.updates[Len(w3.updates)]
      IN (Len(w1.updates) = Len(updates) + 1 /\ Len(w3.updates) > Len(w1.updates)) =>
           /\ Len(w3.updates) = Len(w1.updates) + 1
           /\ e2.status = "running"
           /\ e2.tail = (IF Carried(w1, a) = <<>> THEN <<>> ELSE Split(Carried(w1, a)))
           /\ w3.ptys[overlay.session].rawOutput = ptys[overlay.session].rawOutput \o a

\* the per-update cap alone
CappedPerUpdate(w, a) == SliceLast(StripAnsi(a), w.overlay.options.handsFreeUpdateMaxChars)

\* the per-update cap, then the cap to the remaining total budget
CappedToBudget(w, a) ==
  LET remaining == w.overlay.options.handsFreeMaxTotalChars - w.overlay.totalCharsSent
      cut1 == CappedPerUpdate(w, a)
  IN IF w.overlay.budgetExhausted THEN <<>>
     ELSE IF Len(cut1) <= remaining THEN cut1
     ELSE IF remaining > 0 THEN SliceLast(cut1, remaining) ELSE <<>>

\* C25 (as stated): in on-quiet mode the later of two successive emissions
\* carries exactly the ANSI-stripped output appended after the earlier one,
\* subject only to the per-update cap that keeps the tail.
C25_LaterCarriesAppended == SuccessiveEmissions(CappedPerUpdate)

\* C25 (amended): in on-quiet mode the later of two successive emissions
\* carries exactly the ANSI-stripped output appended after the earlier one,
\* cut to the per-update cap and then to what is left of the total budget
\* (nothing once the budget is exhausted); nothing read before the earlier
\* emission is delivered again.
C25_LaterCarriesAppendedWithinBudget == SuccessiveEmissions(CappedToBudget)

C25_Witness ==
  /\ overlay.inst > 0 /\ overlay.updateMode = "on-quiet" /\ overlay.state = "hands-free"
  /\ Len(updates) = 2
  /\ updates[1].status = "running" /\ updates[1].tail = <<>>
  /\ updates[2].status = "running" /\ updates[2].tail = <<"x">>
  /\ ptys[overlay.session].rawOutput = <<"e", "x">>
  /\ ptys[overlay.session].lastStreamPosition = 2

\* The run of C26 from a state w0: the child prints b1, stays silent until the
\* quiet timer fires, prints b2 and exits with `code`.  The initial timeout of
\* startHandsFreeUpdates (2 s after the start) fires before the first burst
\* ("before"), in the silence after it ("during"), or not before the exit
\* ("never": the run takes less than 2 s).
TwoBursts(w0, b1, b2, code, initialAt) ==
  LET p == w0.overlay.session
      wA == IF initialAt = "before" THEN TimerCallback(w0, "initial") ELSE w0
      wB == ChildPrints(wA, b1)
      wC == IF initialAt = "during" THEN TimerCallback(wB, "initial") ELSE wB
      wD == TimerCallback(wC, "quiet")
      wE == ChildPrints(wD, b2)
  IN onExit([wE EXCEPT !.ptys[p].exited = TRUE, !.ptys[p].exitCode = code,
                       !.ptys[p].rawOutput = Append(@, StatusLine)])

\* A hands-free session in on-quiet mode that has just been started, with caps
\* that two bursts of one character do not reach.
FreshOnQuiet ==
  /\ ShellOpen /\ overlay.state = "hands-free" /\ overlay.updateMode = "on-quiet"
  /\ overlay.handsFreeInitialTimeout /\ overlay.handsFreeInterval
  /\ updates = <<>> /\ ptys[overlay.session].rawOutput = <<>>
  /\ ~ptys[overlay.session].exited
  /\ overlay.options.handsFreeUpdateMaxChars = MaxBudget + 1
  /\ overlay.options.handsFreeMaxTotalChars = MaxBudget + 2

\* the updates of such a run: running with the first burst, running with the
\* second burst (with or without the exit status line), exited
TwoRunningThenExited(ups, b1, b2) ==
  /\ Len(ups) = 3
  /\ ups[1].status = "running" /\ ups[1].tail = Split(StripAnsi(b1))
  /\ ups[2].status = "running"
  /\ ups[2].tail \in {Split(StripAnsi(b2)), Split(StripAnsi(b2) \o <<StatusLine>>)}
  /\ ups[3].status = "exited"

\* C26: in on-quiet mode a child that prints one burst, stays silent for
\* longer than the quiet threshold, prints a second burst and exits produces
\* exactly two running updates, one carrying each burst, then one exited
\* update, and no other update.
C26_TwoBurstsTwoUpdates ==
  FreshOnQuiet =>
    \A initialAt \in {"never", "before", "during"}, code \in {"0", "1"} :
      TwoRunningThenExited(TwoBursts(World, <<"x">>, <<"x">>, code, initialAt).updates,
                           <<"x">>, <<"x">>)

\* C27: on every tick of the interval timer in hands-free, whether armed at
\* the start or armed again by setUpdateInterval, one update is emitted if the
\* mode is interval, or on-quiet with unsent data; otherwise none is.
C27_TickEmitsIffDue ==
  (ShellOpen /\ overlay.state = "hands-free" /\ overlay.handsFreeInterval) =>
    LET w == handsFreeIntervalFires(World)
        due == \/ overlay.updateMode = "interval"
               \/ overlay.updateMode = "on-quiet" /\ overlay.hasUnsentData
    IN /\ overlay.updateMode \in {"interval", "on-quiet"}
       /\ due => /\ Len(w.updates) = Len(updates) + 1
                 /\ SubSeq(w.updates, 1, Len(updates)) = updates
                 /\ w.updates[Len(w.updates)].status = "running"
       /\ ~due => w.updates = updates
       /\ w.overlay.handsFreeInterval /\ w.overlay.intervalRearmed = overlay.intervalRearmed

C27_Witness ==
  /\ ShellOpen /\ overlay.state = "hands-free" /\ overlay.updateMode = "on-quiet"
  /\ overlay.handsFreeInterval /\ overlay.intervalRearmed
  /\ overlay.currentUpdateInterval = MIN_INTERVAL
  /\ ~overlay.hasUnsentData /\ ~overlay.quietTimer /\ ~overlay.handsFreeInitialTimeout
  /\ Len(updates) = 2 /\ updates[2].status = "running"
  /\ ptys[overlay.session].lastStreamPosition = 2

\* C28: takeover is irreversible: in every reachable state userTookOver
\* implies that the state is not hands-free, and no step takes a controller
\* that is not in hands-free (back) to hands-free.
C28_TakeoverIrreversible ==
  /\ [](overlay.userTookOver => overlay.state # "hands-free")
  /\ [][(overlay.inst > 0 /\ overlay'.inst = overlay.inst /\ overlay.state # "hands-free")
          => overlay'.state # "hands-free"]_vars

C28_Witness ==
  /\ ShellOpen /\ overlay.options.mode = "hands-free" /\ overlay.userTookOver
  /\ overlay.state = "running" /\ overlay.dialogSelection = "cancel"
  /\ HasUpdate("user-takeover")
  /\ Len(ptys[overlay.session].rawOutput) > 0

\* In hands-free, a scroll key, and an Escape when `window` is the value of
\* "the previous Escape was less than doubleEscapeThreshold ago", leave the
\* controller as it is: hands-free, registered, no update, every timer of the
\* hands-free updates as before and the next interval tick emitting what it
\* would have emitted; a scroll key writes nothing to the child.
NoTakeoverOnScrollOrEscape(window) ==
  (ShellOpen /\ overlay.mounted /\ overlay.state = "hands-free") =>
    \A data \in {"shift+up", "shift+down"} \cup
                (IF overlay.escapeRecent = window THEN {"escape"} ELSE {}) :
      LET w == handleInput(World, data, None)
          p == overlay.session
      IN /\ w.overlay.state = "hands-free" /\ ~w.overlay.userTookOver
         /\ overlay.sessionId \in DOMAIN activeSessions
         /\ w.activeSessions = activeSessions /\ w.usedIds = usedIds
         /\ w.updates = updates
         /\ w.overlay.handsFreeInterval = overlay.handsFreeInterval
         /\ w.overlay.handsFreeInitialTimeout = overlay.handsFreeInitialTimeout
         /\ w.overlay.quietTimer = overlay.quietTimer
         /\ w.overlay.hasUnsentData = overlay.hasUnsentData
         /\ handsFreeIntervalFires(w).updates = handsFreeIntervalFires(World).updates
         /\ data # "escape" => w.ptys = ptys
         /\ data = "escape" => w.ptys[p].written = Append(ptys[p].written, "escape")

\* C29 (as stated): in hands-free a scroll key, or an Escape pressed during
\* the double-escape window (less than doubleEscapeThreshold after another
\* Escape), never triggers takeover.
C29_ScrollOrEscapeInWindow == NoTakeoverOnScrollOrEscape(TRUE)

\* C29 (amended): in hands-free a scroll key, or an Escape that is the first
\* half of a double escape (no other Escape less than doubleEscapeThreshold
\* before it), never triggers takeover: the state stays hands-free, the
\* session stays in the active map, no update is emitted, the hands-free
\* updates go on; a scroll key is not written to the child (the Escape is).
C29_ScrollOrFirstEscape == NoTakeoverOnScrollOrEscape(FALSE)

C29_Witness ==
  /\ ShellOpen /\ overlay.state = "hands-free" /\ ~overlay.userTookOver
  /\ overlay.escapeRecent
  /\ ptys[overlay.session].written = <<"escape">>
  /\ overlay.sessionId \in DOMAIN activeSessions
  /\ overlay.handsFreeInterval
  /\ Len(updates) = 1 /\ updates[1].status = "running"

\* C30: an Escape less than doubleEscapeThreshold after another one, in
\* running or hands-free, opens the detach dialog with `background`
\* selected and is not written to the child; in hands-free the takeover has
\* been performed first: pending output flushed, the session unregistered,
\* the hands-free timers stopped and `user-takeover` the last update.
C30_DoubleEscapeOpensDialog ==
  (/\ ShellOpen /\ overlay.mounted /\ overlay.state \in {"running", "hands-free"}
   /\ overlay.escapeRecent) =>
    LET w == handleInput(World, "escape", None)
        p == overlay.session
        flushed == flushPending(World)
    IN /\ w.overlay.state = "detach-dialog" /\ w.overlay.dialogSelection = "background"
       /\ ~w.overlay.finished /\ ~w.overlay.escapeRecent
       /\ w.ptys[p].written = ptys[p].written
       /\ overlay.state = "running" =>
            /\ w.updates = updates /\ w.activeSessions = activeSessions
            /\ w.overlay.userTookOver = overlay.userTookOver
       /\ overlay.state = "hands-free" =>
            /\ w.overlay.userTookOver
            /\ overlay.sessionId \in DOMAIN activeSessions
            /\ overlay.sessionId \notin DOMAIN w.activeSessions
            /\ w.usedIds = usedIds
            /\ w.updates = Notify(flushed, "user-takeover", <<>>, FALSE).updates
            /\ w.updates[Len(w.updates)].status = "user-takeover"
            /\ w.ptys[p].lastStreamPosition = flushed.ptys[p].lastStreamPosition
            /\ ~w.overlay.hasUnsentData
            /\ ~w.overlay.handsFreeInterval /\ ~w.overlay.handsFreeInitialTimeout
            /\ ~w.overlay.quietTimer

C30_Witness ==
  /\ ShellOpen /\ overlay.mounted /\ overlay.options.mode = "hands-free"
  /\ overlay.state = "detach-dialog" /\ overlay.dialogSelection = "background"
  /\ overlay.userTookOver /\ ~overlay.escapeRecent
  /\ ptys[overlay.session].written = <<"escape">>
  /\ Len(updates) = 2 /\ updates[1].status = "running" /\ updates[2].status = "user-takeover"
  /\ overlay.sessionId \notin DOMAIN activeSessions

\* The dialog is opened by the second Escape of a double escape in running
\* or hands-free and left again by Escape, or by moving the selection to
\* `cancel` and pressing Enter: the session is not finished, not killed, not
\* disposed, done is not called, and the state is after(state before).
DialogCancelled(after(_)) ==
  (/\ ShellOpen /\ overlay.mounted /\ overlay.state \in {"running", "hands-free"}
   /\ overlay.escapeRecent) =>
    \A bgId \in generateSessionId(overlay.options.name, usedIds) :
      LET opened == handleInput(World, "escape", bgId)
          p == overlay.session
          left == {handleInput(opened, "escape", bgId),
                   handleInput(handleInput(opened, "down", bgId), "enter", bgId),
                   handleInput(handleInput(handleInput(opened, "up", bgId), "up", bgId),
                               "enter", bgId)}
      IN /\ opened.overlay.state = "detach-dialog"
         /\ \A w \in left :
              /\ w.overlay.state = after(overlay.state)
              /\ ~w.overlay.finished /\ w.doneCalls = doneCalls
              /\ w.ptys[p].disposed = ptys[p].disposed /\ ~w.ptys[p].killed
              /\ w.ptys[p].written = ptys[p].written
              /\ w.ptys[p].rawOutput = ptys[p].rawOutput
              /\ w.sessions = sessions /\ w.usedIds = usedIds

StateBefore(state) == state
RunningState(state) == "running"

\* C31 (as stated): Cancel or Escape in the detach dialog returns the
\* controller to the state it was in when the dialog was opened (running or
\* hands-free), without finishing, disposing or calling done.
C31_CancelRestoresState == DialogCancelled(StateBefore)

\* C31 (amended): Cancel or Escape in the detach dialog always leaves the
\* controller in running, also when the dialog was opened from hands-free
\* (the takeover on entry is not undone), without finishing, disposing or
\* calling done.
C31_CancelLeavesRunning == DialogCancelled(RunningState)

C31_Witness ==
  /\ ShellOpen /\ overlay.mounted /\ overlay.options.mode = "hands-free"
  /\ overlay.state = "running" /\ overlay.userTookOver
  /\ overlay.dialogSelection = "cancel" /\ doneCalls = <<>>
  /\ ptys[overlay.session].written = <<"escape">>
  /\ ~ptys[overlay.session].disposed /\ ~ptys[overlay.session].killed

\* C32: once a controller has finished, none of its timers (initial delay,
\* interval, quiet, exit countdown, timeout) is armed, and a data event, an
\* exit event or a tick of a timer that is still armed emits no update, arms
\* no timer and changes nothing of the controller.
C32_FinishedIsQuiescent ==
  (overlay.inst > 0 /\ overlay.finished) =>
    LET p == overlay.session
        exitEvent == onExit([World EXCEPT !.ptys[p].exited = TRUE, !.ptys[p].exitCode = "0",
                                          !.ptys[p].rawOutput = Append(@, StatusLine)])
        late == {onData([World EXCEPT !.ptys[p].rawOutput = Append(@, "x")]), exitEvent,
                 TimerCallback(World, "initial"), TimerCallback(World, "interval"),
                 TimerCallback(World, "quiet"),
                 IF overlay.countdownInterval THEN countdownCallback(World) ELSE World,
                 IF overlay.timeoutTimer THEN finishWithTimeout(World) ELSE World}
    IN /\ ~overlay.handsFreeInitialTimeout /\ ~overlay.handsFreeInterval
       /\ ~overlay.quietTimer /\ ~overlay.countdownInterval /\ ~overlay.timeoutTimer
       /\ \A w \in late :
            /\ w.updates = updates /\ w.overlay = overlay /\ w.doneCalls = doneCalls
            /\ w.activeSessions = activeSessions /\ w.usedIds = usedIds

\* C33: a hands-free controller (one with a session id) has called
\* unregisterActive exactly once by the time it has finished and never more
\* than once, whichever of takeover, child exit, finishWith* and dispose
\* happened; after the call its id is not in the active map.
C33_UnregisteredExactlyOnce ==
  overlay.inst > 0 =>
    /\ overlay.unregisterCalls <= 1
    /\ overlay.sessionUnregistered <=> overlay.unregisterCalls = 1
    /\ overlay.sessionId = None => overlay.unregisterCalls = 0
    /\ (overlay.sessionId # None /\ (overlay.finished \/ ~overlay.mounted \/ overlay.userTookOver)) =>
         /\ overlay.unregisterCalls = 1
         /\ overlay.sessionId \notin DOMAIN activeSessions

\* the user took over, the child exited, the countdown finished the
\* controller and the TUI dropped the overlay
C33_Witness ==
  /\ overlay.inst > 0 /\ overlay.sessionId # None
  /\ overlay.userTookOver /\ overlay.state = "exited" /\ overlay.finished
  /\ ~overlay.mounted /\ overlay.unregisterCalls = 1
  /\ Len(doneCalls) = 1 /\ doneCalls[1].kind = "exit"

\* C34: dispose of a ReattachOverlay, finished or not, leaves neither the
\* deferred countdown start (initialExitTimeout) nor the countdown interval
\* armed and takes the overlay's handlers off the session, so that no
\* countdown is started and no tick runs afterwards; and a tick or a deferred
\* start that runs on a finished overlay never calls done.
C34_NoCountdownAfterDispose ==
  reattach.mounted =>
    LET d == reattachDispose(World)
        started == reattachStartExitCountdown([World EXCEPT !.reattach.initialExitTimeout = FALSE])
    IN /\ ~d.reattach.initialExitTimeout /\ ~d.reattach.countdownInterval
       /\ d.ptys[reattach.session].handlers = "none"
       /\ d.reattach.doneCalls = reattach.doneCalls
       /\ reattach.doneCalls <= 1
       /\ reattach.finished =>
            /\ reattach.doneCalls = 1
            /\ reattachCountdownCallback(World).reattach.doneCalls = 1
            /\ reattachCountdownCallback(started).reattach.doneCalls = 1
            /\ reattachOnExit(World) = World

\* a ReattachOverlay opened on an exited session and closed by a key before
\* its deferred countdown start has fired
C34_Witness ==
  /\ reattach.mounted /\ reattach.finished /\ reattach.initialExitTimeout
  /\ reattach.state = "exited" /\ reattach.doneCalls = 1
  /\ ptys[reattach.session].exited

\* ------------------------------------------------------------------- C35
\* C35 as stated: translateInput agrees with the reference translation for
\* every input: a raw string is returned unchanged, and a structured input
\* yields, in this order, the decoded hex bytes, the text, the encoding of
\* each key token in list order, and the paste wrapped in ESC[200~ and
\* ESC[201~ whenever a paste is given.
C35_PasteAlwaysWrapped ==
  LET Field(f, default) == IF f = <<>> THEN default ELSE f[1]
      Reference(input) ==
        IF input.kind = "string" THEN input.value
        ELSE Concat([i \in 1..Len(Field(input.hex, <<>>)) |-> decodeHex(Field(input.hex, <<>>)[i])])
             \o Field(input.text, <<>>)
             \o Concat([i \in 1..Len(Field(input.keys, <<>>)) |->
                          encodeKeyToken(Field(input.keys, <<>>)[i])])
             \o (IF input.paste = <<>> THEN <<>>
                 ELSE BRACKETED_PASTE_START \o input.paste[1] \o BRACKETED_PASTE_END)
  IN translated # None => translated[1].result = Reference(translated[1].input)

\* C35, amended: translateInput agrees with the reference translation for
\* every input: a raw string is returned unchanged, and a structured input
\* yields, in this order, the decoded hex bytes, the text, the encoding of
\* each key token in list order, and a non-empty paste wrapped in ESC[200~
\* and ESC[201~; an empty paste contributes nothing, and a structured input
\* with only a text yields the text verbatim.
C35_TranslateAgreesWithReference ==
  LET Field(f, default) == IF f = <<>> THEN default ELSE f[1]
      Reference(input) ==
        IF input.kind = "string" THEN input.value
        ELSE Concat([i \in 1..Len(Field(input.hex, <<>>)) |-> decodeHex(Field(input.hex, <<>>)[i])])
             \o Field(input.text, <<>>)
             \o Concat([i \in 1..Len(Field(input.keys, <<>>)) |->
                          encodeKeyToken(Field(input.keys, <<>>)[i])])
             \o (IF Field(input.paste, <<>>) = <<>> THEN <<>>
                 ELSE BRACKETED_PASTE_START \o input.paste[1] \o BRACKETED_PASTE_END)
      input == translated[1].input
  IN translated # None =>
       /\ translated[1].result = Reference(input)
       /\ input.kind = "string" => translated[1].result = input.value
       /\ (/\ input.kind = "structured" /\ input.text # <<>>
           /\ input.hex = <<>> /\ input.keys = <<>> /\ input.paste = <<>>)
          => translated[1].result = input.text[1]

\* A structured input with all four fields was translated: the byte 0x1b,
\* then "hi", then ctrl+c and the up arrow, then the wrapped paste "p".
C35_Witness ==
  /\ translated # None
  /\ translated[1].input.kind = "structured"
  /\ translated[1].result =
       <<ESC, 104, 105, 3, ESC, 91, 65, ESC, 91, 50, 48, 48, 126, 112, ESC, 91, 50, 48, 49, 126>>

\* ------------------------------------------------------------------- C36
\* C36: in on-quiet hands-free mode hasUnsentData is accurate: whenever it is
\* true, the child has appended output since the last emitted update (also
\* after the update of the initial delay), so an update emitted by the quiet
\* timer or by the fallback interval never carries an empty tail while the
\* budget is not exhausted.
C36_HasUnsentDataAccurate ==
  (/\ ShellOpen /\ overlay.state = "hands-free" /\ overlay.updateMode = "on-quiet"
   /\ overlay.hasUnsentData) =>
    /\ Len(ptys[overlay.session].rawOutput) > ptys[overlay.session].lastStreamPosition
    /\ \A timer \in {"quiet", "interval"} :
         LET w1 == TimerCallback(World, timer)
             e == w1.updates[Len(w1.updates)]
         IN (Len(w1.updates) > Len(updates) /\ e.status = "running") =>
              (e.tail # <<>> \/ e.budgetExhausted)

\* ------------------------------------------------------------------- C37
\* C37: when the child exits while the detach dialog is open, the controller
\* leaves the dialog for the exited state and starts the countdown, without
\* finishing; after that no key takes a dialog action (the session is neither
\* killed nor put in the background): every key, and the countdown running
\* out, finishes the controller with the exit result; and a hands-free
\* session whose controller is in the dialog has already been unregistered.
C37_ExitInDialog ==
  (/\ ShellOpen /\ overlay.mounted /\ overlay.state = "detach-dialog"
   /\ ~ptys[overlay.session].exited) =>
    LET p == overlay.session
        FinishedWithExit(w, code) ==
          /\ w.overlay.finished /\ w.overlay.state = "exited"
          /\ Len(w.doneCalls) = Len(doneCalls) + 1
          /\ w.doneCalls[Len(w.doneCalls)].kind = "exit"
          /\ w.doneCalls[Len(w.doneCalls)].exitCode = code
          /\ ~w.ptys[p].killed /\ w.sessions = sessions
          /\ ~w.overlay.countdownInterval
        RECURSIVE CountdownRuns(_)
        CountdownRuns(w) ==
          IF w.overlay.countdownInterval THEN CountdownRuns(countdownCallback(w)) ELSE w
    IN /\ overlay.sessionId # None =>
            overlay.sessionUnregistered /\ overlay.sessionId \notin DOMAIN activeSessions
       /\ \A code \in {"0", "1"} :
            LET w == onExit([World EXCEPT !.ptys[p].exited = TRUE, !.ptys[p].exitCode = code,
                                          !.ptys[p].rawOutput = Append(@, StatusLine)])
            IN /\ w.overlay.state = "exited"
               /\ w.overlay.exitCountdown = overlay.config.exitAutoCloseDelay
               /\ w.overlay.countdownInterval
               /\ ~w.overlay.finished /\ w.doneCalls = doneCalls
               /\ ~w.ptys[p].killed /\ w.sessions = sessions
               /\ w.updates = updates /\ w.activeSessions = activeSessions
               /\ \A data \in Keys, bgId \in generateSessionId(overlay.options.name, usedIds) :
                    FinishedWithExit(handleInput(w, data, bgId), code)
               /\ FinishedWithExit(CountdownRuns(w), code)

\* The dialog was opened from hands-free with `kill` selected, the child
\* exited with code 1 and Enter finished the controller with the exit result.
C37_Witness ==
  /\ overlay.inst > 0 /\ overlay.sessionId # None /\ overlay.userTookOver
  /\ overlay.state = "exited" /\ overlay.finished
  /\ overlay.dialogSelection = "kill"
  /\ overlay.exitCountdown = overlay.config.exitAutoCloseDelay
  /\ Len(doneCalls) = 1 /\ doneCalls[1].kind = "exit" /\ doneCalls[1].exitCode = "1"
  /\ ~ptys[overlay.session].killed /\ sessions = <<>>

\* ------------------------------------------------------------------- C38
\* C38: a controller holds at most one pending timer of each kind (exit
\* countdown, quiet, initial delay, fallback interval, timeout) in every
\* reachable state, namely the one its field refers to: arming cancels the
\* timer armed before, also when setUpdateInterval is called again, when
\* data events follow each other and when the exit is handled again.
C38_OneTimerPerKind ==
  LET Armed(w, kind) ==
        CASE kind = "countdown" -> w.overlay.countdownInterval
          [] kind = "quiet" -> w.overlay.quietTimer
          [] kind = "initial" -> w.overlay.handsFreeInitialTimeout
          [] kind = "interval" -> w.overlay.handsFreeInterval
          [] kind = "timeout" -> w.overlay.timeoutTimer
      OnePerKind(w) ==
        \A kind \in TimerKinds : w.overlay.pending[kind] = (IF Armed(w, kind) THEN 1 ELSE 0)
      p == overlay.session
      Exited(w) == [w EXCEPT !.ptys[p].exited = TRUE, !.ptys[p].exitCode = "0"]
  IN overlay.inst > 0 =>
       /\ OnePerKind(World)
       /\ OnePerKind(onData(onData(World)))
       /\ OnePerKind(onExit(onExit(Exited(World))))
       /\ OnePerKind(startExitCountdown(startExitCountdown(World)))
       /\ \A ms1 \in IntervalInputs, ms2 \in IntervalInputs :
            OnePerKind(setUpdateInterval(setUpdateInterval(World, ms1), ms2))

\* A hands-free session in on-quiet mode with a timeout: the child has printed
\* twice, the interval was changed, and the initial-delay, interval, quiet and
\* timeout timers are pending, one each.
C38_Witness ==
  /\ ShellOpen /\ overlay.state = "hands-free" /\ overlay.updateMode = "on-quiet"
  /\ overlay.intervalRearmed /\ overlay.hasUnsentData
  /\ Len(ptys[overlay.session].rawOutput) = 2
  /\ overlay.pending = [kind \in TimerKinds |-> IF kind = "countdown" THEN 0 ELSE 1]

\* ------------------------------------------------------------------- C39
\* C39: every live exit watcher and cleanup timer of the registry belongs to
\* a session that is in the corresponding map (background or minimized) under
\* the timer's id, and is the one the registry holds for that id; so each id
\* has at most one live watcher and one live cleanup timer per map, none
\* outlives its session, and a cleanup timer that fires disposes only the
\* session it was armed for.
C39_TimersBelongToSessions ==
  /\ \A h \in timers :
       /\ h.kind = "exitWatcher" =>
            /\ h.id \in DOMAIN sessions /\ sessions[h.id] = h.session
            /\ h.id \in DOMAIN exitWatchers /\ exitWatchers[h.id] = h
       /\ h.kind = "cleanupTimer" =>
            /\ h.id \in DOMAIN sessions /\ sessions[h.id] = h.session
            /\ h.id \in DOMAIN cleanupTimers /\ cleanupTimers[h.id] = h
       /\ h.kind = "minimizedExitWatcher" =>
            /\ h.id \in DOMAIN minimizedSessions /\ minimizedSessions[h.id] = h.session
            /\ h.id \in DOMAIN minimizedExitWatchers /\ minimizedExitWatchers[h.id] = h
       /\ h.kind = "minimizedCleanupTimer" =>
            /\ h.id \in DOMAIN minimizedSessions /\ minimizedSessions[h.id] = h.session
            /\ h.id \in DOMAIN minimizedCleanupTimers /\ minimizedCleanupTimers[h.id] = h
  /\ \A h \in timers :
       h.kind \in {"cleanupTimer", "minimizedCleanupTimer"} =>
         LET w == cleanupCallback(World, h)
         IN \A p \in 1..Len(ptys) :
              (w.ptys[p].disposed /\ ~ptys[p].disposed) => p = h.session

\* ------------------------------------------------------------------- C40
\* C40: overlayOpen is true exactly while an overlay (the shell overlay or
\* the reattach overlay) is open: it is cleared when the overlay finishes,
\* it is not cleared while another overlay is still open, and a start is
\* answered with overlay_already_open exactly in the states where an overlay
\* is open, so it is not refused once the overlay has finished.
C40_FlagIffOverlayOpen ==
  /\ overlayOpen <=> (ShellOpen \/ ReattachOpen)
  /\ \A options \in RegistryOptions, config \in Configs :
       \A id \in generateSessionId(options.name, usedIds) :
         LET refused == Answer(World, [NoParams EXCEPT !.command = TRUE],
                               [NoDetails EXCEPT !.isError = TRUE,
                                                 !.error = "overlay_already_open"])
         IN (execute_start(World, options, config, id) = refused)
              <=> (ShellOpen \/ ReattachOpen)

====
